---- MODULE Spec2Model ----
(***************************************************************************)
(* Model of typemorph's pattern-matching engine                            *)
(* (src/src/pattern-matching.ts): the Pattern class (match, ref,           *)
(* collectCaptures, toString) and the ast.* combinator factories, run      *)
(* against a small fixed syntax tree.                                      *)
(*                                                                         *)
(* A run of the model is one "session": a pattern graph is built by the    *)
(* factories (Init picks it from a bounded family), then a driver calls    *)
(* match / ref / collectCaptures / toString on the top-level pattern.      *)
(***************************************************************************)
EXTENDS Integers, Sequences, FiniteSets

VARIABLES pats, cands, lastMatch, matches, refName, heap, call, ncalls, hits, seen,
          satisfied

vars == <<pats, cands, lastMatch, matches, refName, heap, call, ncalls, hits, seen, satisfied>>

(***************************************************************************)
(* Bounds                                                                  *)
(***************************************************************************)
\* number of driver calls (match/ref/collectCaptures/toString) in a session
MaxCalls == 3

(***************************************************************************)
(* JavaScript values that flow through match(): undefined, booleans,       *)
(* nodes and node arrays.  Nodes and arrays are objects: `id` is their     *)
(* identity.  A node whose id is not a tree node is one of the synthetic   *)
(* true/false literal nodes built by `booleans` (its value is in `b`).     *)
(***************************************************************************)
Undef == [t |-> "undef", id |-> 0, elems |-> <<>>, b |-> FALSE]
BoolV(x) == [t |-> "bool", id |-> 0, elems |-> <<>>, b |-> x]
NodeV(i) == [t |-> "node", id |-> i, elems |-> <<>>, b |-> FALSE]
SynthV(i, x) == [t |-> "node", id |-> i, elems |-> <<>>, b |-> x]
ListV(i, es) == [t |-> "list", id |-> i, elems |-> es, b |-> FALSE]

\* JS truthiness of a value (objects are truthy, also the empty array)
Truthy(v) == v.t \in {"node", "list"} \/ (v.t = "bool" /\ v.b)
\* Array.isArray (IsArray_Never, a wrong reading, takes nothing for an array)
IsArray_Never(v) == FALSE
IsArray(v) == v.t = "list"
\* Node.isNode
IsNode(v) == v.t = "node"

(***************************************************************************)
(* The syntax tree (the external Node abstraction).  It is the parse of    *)
(*     export { aaa, type bbb }                                            *)
(*     export = (yyy as any)                                               *)
(*     fn(1, true, 3)                                                      *)
(*     find({ id: 1 })                                                     *)
(*     (<any>yyy)! satisfies any                                           *)
(*     [null, undefined, "str"]                                            *)
(*     fn()                                                                *)
(*     use({}, { id: 1, key: true }, { key: true, id: 1 })                 *)
(*     export * from "str"                                                 *)
(* with the nodes numbered in depth-first order.                           *)
(* A slot holds a node, a node list or a primitive boolean, or is absent.   *)
(***************************************************************************)
Absent == [t |-> "absent", id |-> 0, elems |-> <<>>, b |-> FALSE]
SN(i) == [t |-> "node", id |-> i, elems |-> <<>>, b |-> FALSE]
SL(es) == [t |-> "list", id |-> 0, elems |-> es, b |-> FALSE]
SB(x) == [t |-> "bool", id |-> 0, elems |-> <<>>, b |-> x]

\* a node and the slots it has; a slot it does not have is absent
TNode(kind, parent, text, r) ==
  [kind |-> kind, parent |-> parent, text |-> text, slots |-> r]
NoSlots == [none |-> Absent]

Tree == <<
  TNode("SourceFile", 0, "", [statements |-> SL(<<2, 8, 13, 19, 26, 34, 39, 42, 60>>)]),
  TNode("ExportDeclaration", 1, "", [exportClause |-> SN(3), isTypeOnly |-> SB(FALSE)]),
  TNode("NamedExports", 2, "", [elements |-> SL(<<4, 6>>)]),
  TNode("ExportSpecifier", 3, "", [name |-> SN(5), isTypeOnly |-> SB(FALSE)]),
  TNode("Identifier", 4, "aaa", NoSlots),
  TNode("ExportSpecifier", 3, "", [name |-> SN(7), isTypeOnly |-> SB(TRUE)]),
  TNode("Identifier", 6, "bbb", NoSlots),
  TNode("ExportAssignment", 1, "", [expression |-> SN(9), isExportEquals |-> SB(TRUE)]),
  TNode("ParenthesizedExpression", 8, "", [expression |-> SN(10)]),
  TNode("AsExpression", 9, "", [expression |-> SN(11), type |-> SN(12)]),
  TNode("Identifier", 10, "yyy", NoSlots),
  TNode("AnyKeyword", 10, "any", NoSlots),
  TNode("ExpressionStatement", 1, "", [expression |-> SN(14)]),
  TNode("CallExpression", 13, "", [expression |-> SN(15), arguments |-> SL(<<16, 17, 18>>)]),
  TNode("Identifier", 14, "fn", NoSlots),
  TNode("NumericLiteral", 14, "1", NoSlots),
  TNode("TrueKeyword", 14, "true", NoSlots),
  TNode("NumericLiteral", 14, "3", NoSlots),
  TNode("ExpressionStatement", 1, "", [expression |-> SN(20)]),
  TNode("CallExpression", 19, "", [expression |-> SN(21), arguments |-> SL(<<22>>)]),
  TNode("Identifier", 20, "find", NoSlots),
  TNode("ObjectLiteralExpression", 20, "", [properties |-> SL(<<23>>)]),
  TNode("PropertyAssignment", 22, "", [name |-> SN(24), initializer |-> SN(25)]),
  TNode("Identifier", 23, "id", NoSlots),
  TNode("NumericLiteral", 23, "1", NoSlots),
  TNode("ExpressionStatement", 1, "", [expression |-> SN(27)]),
  TNode("SatisfiesExpression", 26, "", [expression |-> SN(28), type |-> SN(33)]),
  TNode("NonNullExpression", 27, "", [expression |-> SN(29)]),
  TNode("ParenthesizedExpression", 28, "", [expression |-> SN(30)]),
  TNode("TypeAssertion", 29, "", [type |-> SN(31), expression |-> SN(32)]),
  TNode("AnyKeyword", 30, "any", NoSlots),
  TNode("Identifier", 30, "yyy", NoSlots),
  TNode("AnyKeyword", 27, "any", NoSlots),
  TNode("ExpressionStatement", 1, "", [expression |-> SN(35)]),
  TNode("ArrayLiteralExpression", 34, "", [elements |-> SL(<<36, 37, 38>>)]),
  TNode("NullKeyword", 35, "null", NoSlots),
  TNode("Identifier", 35, "undefined", NoSlots),
  TNode("StringLiteral", 35, "\"str\"", NoSlots),
  TNode("ExpressionStatement", 1, "", [expression |-> SN(40)]),
  TNode("CallExpression", 39, "", [expression |-> SN(41), arguments |-> SL(<<>>)]),
  TNode("Identifier", 40, "fn", NoSlots),
  TNode("ExpressionStatement", 1, "", [expression |-> SN(43)]),
  TNode("CallExpression", 42, "", [expression |-> SN(44), arguments |-> SL(<<45, 46, 53>>)]),
  TNode("Identifier", 43, "use", NoSlots),
  TNode("ObjectLiteralExpression", 43, "", [properties |-> SL(<<>>)]),
  TNode("ObjectLiteralExpression", 43, "", [properties |-> SL(<<47, 50>>)]),
  TNode("PropertyAssignment", 46, "", [name |-> SN(48), initializer |-> SN(49)]),
  TNode("Identifier", 47, "id", NoSlots),
  TNode("NumericLiteral", 47, "1", NoSlots),
  TNode("PropertyAssignment", 46, "", [name |-> SN(51), initializer |-> SN(52)]),
  TNode("Identifier", 50, "key", NoSlots),
  TNode("TrueKeyword", 50, "true", NoSlots),
  TNode("ObjectLiteralExpression", 43, "", [properties |-> SL(<<54, 57>>)]),
  TNode("PropertyAssignment", 53, "", [name |-> SN(55), initializer |-> SN(56)]),
  TNode("Identifier", 54, "key", NoSlots),
  TNode("TrueKeyword", 54, "true", NoSlots),
  TNode("PropertyAssignment", 53, "", [name |-> SN(58), initializer |-> SN(59)]),
  TNode("Identifier", 57, "id", NoSlots),
  TNode("NumericLiteral", 57, "1", NoSlots),
  TNode("ExportDeclaration", 1, "", [moduleSpecifier |-> SN(61), isTypeOnly |-> SB(FALSE)]),
  TNode("StringLiteral", 60, "\"str\"", NoSlots)
>>

NumNodes == Len(Tree)
SlotAt(i, key) ==
  IF i \in 1..NumNodes /\ key \in DOMAIN Tree[i].slots THEN Tree[i].slots[key] ELSE Absent
IsTreeNode(v) == v.t = "node" /\ v.id \in 1..NumNodes

\* node.getKindName() / node.isKind(k)
KindOf(v) ==
  IF v.id \in 1..NumNodes THEN Tree[v.id].kind
  ELSE IF v.b THEN "TrueKeyword" ELSE "FalseKeyword"
\* node.getText()
TextOf(v) ==
  IF v.id \in 1..NumNodes THEN Tree[v.id].text
  ELSE IF v.b THEN "true" ELSE "false"
\* node.getParent(): undefined for the root and for a synthetic node
ParentOf(v) ==
  IF v.id \in 1..NumNodes /\ Tree[v.id].parent # 0 THEN NodeV(Tree[v.id].parent) ELSE Undef

\* node.forEachDescendant: the proper descendants in depth-first order (the
\* order the nodes are numbered in); a synthetic node has none
RECURSIVE HasAncestor(_, _)
HasAncestor(i, n) ==
  IF i \notin 1..NumNodes \/ Tree[i].parent = 0 THEN FALSE
  ELSE Tree[i].parent = n \/ HasAncestor(Tree[i].parent, n)
DescendantsOf ==
  [n \in 1..NumNodes |-> SelectSeq([i \in 1..NumNodes |-> i], LAMBDA i : HasAncestor(i, n))]
Descendants(n) == IF n \in 1..NumNodes THEN DescendantsOf[n] ELSE <<>>

\* Node.isIdentifier
IsIdentifier(v) == KindOf(v) = "Identifier"
\* Node.hasName(node) / node.getName(): the declaration-like nodes of the
\* tree that expose a name accessor; "" stands for "no name accessor"
NameOf(v) ==
  IF v.id \in 1..NumNodes /\ Tree[v.id].kind \in {"ExportSpecifier", "PropertyAssignment"}
  THEN Tree[SlotAt(v.id, "name").id].text
  ELSE ""
HasName(v) == NameOf(v) # ""
\* isStringLike(node)
isStringLike(v) ==
  KindOf(v) \in {"StringLiteral", "NoSubstitutionTemplateLiteral", "TemplateHead",
                 "TemplateMiddle", "TemplateTail"}
\* stringLiteral.getLiteralText(): the text without its quotes
LiteralTextOf(v) == IF TextOf(v) = "\"str\"" THEN "str" ELSE TextOf(v)
\* arrayLiteral.getElements()
getElements(v) == SlotAt(v.id, "elements").elems
\* isLiteral(node)
isLiteral(v) ==
  \/ isStringLike(v)
  \/ KindOf(v) \in {"NumericLiteral", "TrueKeyword", "FalseKeyword", "NullKeyword",
                     "UndefinedKeyword"}
\* numericLiteral.getLiteralValue()
NumOf(v) == IF TextOf(v) = "1" THEN 1 ELSE IF TextOf(v) = "3" THEN 3 ELSE 0

(***************************************************************************)
(* node.getNodeProperty(key): an absent slot reads as undefined, a list    *)
(* slot is mapped to a fresh array on every read, a node slot to the       *)
(* (identity-stable) wrapped node, a primitive is returned as is.          *)
(* `h` is the next free object identity; the result carries the new one.   *)
(***************************************************************************)
ReadSlot(s, h) ==
  CASE s.t = "node" -> [v |-> NodeV(s.id), h |-> h]
    [] s.t = "list" -> [v |-> ListV(h, s.elems), h |-> h + 1]
    [] s.t = "bool" -> [v |-> BoolV(s.b), h |-> h]
    [] OTHER -> [v |-> Undef, h |-> h]
getNodeProperty(node, key, h) == ReadSlot(SlotAt(node.id, key), h)

\* unwrapExpression(node): the expression under any nesting of as,
\* parentheses, non-null, type-assertion and satisfies wrappers
\* (unwrapExpression_OneLayer, a wrong reading, takes off one wrapper)
getExpression(node) == NodeV(SlotAt(node.id, "expression").id)
unwrapExpression_OneLayer(node) ==
  IF KindOf(node) \in {"AsExpression", "ParenthesizedExpression", "NonNullExpression",
                       "TypeAssertion", "SatisfiesExpression"}
  THEN getExpression(node) ELSE node
RECURSIVE unwrapExpression(_)
unwrapExpression(node) ==
  IF KindOf(node) = "AsExpression" THEN unwrapExpression(getExpression(node))
  ELSE IF KindOf(node) = "ParenthesizedExpression" THEN unwrapExpression(getExpression(node))
  ELSE IF KindOf(node) = "NonNullExpression" THEN unwrapExpression(getExpression(node))
  ELSE IF KindOf(node) = "TypeAssertion" THEN unwrapExpression(getExpression(node))
  ELSE IF KindOf(node) = "SatisfiesExpression" THEN unwrapExpression(getExpression(node))
  ELSE node

\* booleans[prop ? 'true' : 'false'](sourceFile): a new synthetic literal node
booleans(prop, h) == [v |-> SynthV(h, prop.b), h |-> h + 1]

(***************************************************************************)
(* Pattern records.  `subs` are the ids of the sub-patterns (for ast.node  *)
(* the slot patterns, in declaration order, with `keys` their slot names); *)
(* a pattern only refers to patterns built before it.                      *)
(***************************************************************************)
\* a slot declared with the value null (kept by compact, skipped by ast.node)
NullPat == 0

Base == [op |-> "any", kind |-> "Unknown", subs |-> <<>>, keys |-> <<>>,
         hasProps |-> FALSE, rest |-> 0, isRest |-> FALSE, name |-> "",
         hasVal |-> FALSE, bval |-> FALSE, num |-> 0,
         min |-> 0, hasMax |-> FALSE, max |-> 0, fn |-> "", ref |-> "",
         ptype |-> "", pvals |-> <<>>, isPartial |-> FALSE]

\* options for nodeList / every / some: [hasMin, min, hasMax, max]
NoOpts == [hasMin |-> FALSE, min |-> 0, hasMax |-> FALSE, max |-> 0]
Opts(hasMin, min, hasMax, max) == [hasMin |-> hasMin, min |-> min, hasMax |-> hasMax, max |-> max]
\* const _opts = { min: 0, ...options }
OptsMin(o) == IF o.hasMin THEN o.min ELSE 0

ast_kind(g, syntaxKind) == Append(g, [Base EXCEPT !.op = "kind", !.kind = syntaxKind])

\* compact(props): drops the entries whose value is undefined (id < 0)
CompactIdx(subs) == SelectSeq([i \in 1..Len(subs) |-> i], LAMBDA i : subs[i] >= 0)
compactKeys(keys, subs) == [j \in 1..Len(CompactIdx(subs)) |-> keys[CompactIdx(subs)[j]]]
compactSubs(keys, subs) == [j \in 1..Len(CompactIdx(subs)) |-> subs[CompactIdx(subs)[j]]]

\* ast.node(type, props): props given as slot names and pattern ids
ast_node(g, type, keys, subs) ==
  Append(g, [Base EXCEPT !.op = "node", !.kind = type, !.hasProps = TRUE,
                         !.keys = compactKeys(keys, subs), !.subs = compactSubs(keys, subs)])
\* ast.node(type) without props
ast_node0(g, type) == Append(g, [Base EXCEPT !.op = "node", !.kind = type])

ast_nodeList(g, subs, o) ==
  Append(g, [Base EXCEPT !.op = "nodeList", !.kind = "SyntaxList", !.subs = subs,
                         !.min = OptsMin(o), !.hasMax = o.hasMax, !.max = o.max])
ast_every(g, p, o) ==
  Append(g, [Base EXCEPT !.op = "every", !.kind = "SyntaxList", !.subs = <<p>>,
                         !.min = OptsMin(o), !.hasMax = o.hasMax, !.max = o.max])
ast_some(g, p, o) ==
  Append(g, [Base EXCEPT !.op = "some", !.kind = "SyntaxList", !.subs = <<p>>,
                         !.min = OptsMin(o), !.hasMax = o.hasMax, !.max = o.max])
\* ast.maybeNode(pattern?): subs is <<>> or <<p>>
ast_maybeNode(g, subs) ==
  Append(g, [Base EXCEPT !.op = "maybeNode", !.kind = "JSDocUnknownType", !.subs = subs])
ast_any(g) == Append(g, [Base EXCEPT !.op = "any", !.kind = "Unknown"])
ast_not(g, p) == Append(g, [Base EXCEPT !.op = "not", !.kind = "Unknown", !.subs = <<p>>])
ast_when(g, condition) == Append(g, [Base EXCEPT !.op = "when", !.kind = "Unknown", !.fn = condition])
ast_refine(g, p, transform) ==
  Append(g, [Base EXCEPT !.op = "refine", !.kind = g[p].kind, !.subs = <<p>>, !.fn = transform])
ast_named(g, name) == Append(g, [Base EXCEPT !.op = "named", !.kind = "Unknown", !.name = name])
ast_identifier(g, name) ==
  Append(g, [Base EXCEPT !.op = "identifier", !.kind = "Identifier", !.name = name])
ast_number(g, value) ==
  Append(g, [Base EXCEPT !.op = "number", !.kind = "NumericLiteral", !.hasVal = TRUE, !.num = value])
ast_boolean(g, value) ==
  Append(g, [Base EXCEPT !.op = "boolean", !.kind = "TrueKeyword", !.hasVal = TRUE, !.bval = value])
\* ast.boolean() without a value
ast_string(g, value) ==
  Append(g, [Base EXCEPT !.op = "string", !.kind = "StringLiteral", !.hasVal = TRUE, !.name = value])
\* ast.string() without a value
ast_string0(g) == Append(g, [Base EXCEPT !.op = "string", !.kind = "StringLiteral"])
ast_null(g) == Append(g, [Base EXCEPT !.op = "null", !.kind = "NullKeyword"])
ast_undefined(g) == Append(g, [Base EXCEPT !.op = "undefined", !.kind = "UndefinedKeyword"])
\* ast.array(pattern?): subs is <<>> or <<p>>
ast_array(g, subs) ==
  Append(g, [Base EXCEPT !.op = "array", !.kind = "ArrayLiteralExpression", !.subs = subs])
ast_boolean0(g) == Append(g, [Base EXCEPT !.op = "boolean", !.kind = "TrueKeyword"])
ast_rest(g, p) ==
  Append(g, [Base EXCEPT !.op = "rest", !.kind = "RestType", !.subs = <<p>>, !.isRest = TRUE])

\* ast.tuple(...patterns): a trailing rest pattern is popped and its inner
\* pattern becomes restPattern; otherwise a tuple of fixed length
ast_tuple(g, patterns) ==
  IF Len(patterns) > 0 /\ g[patterns[Len(patterns)]].isRest
  THEN Append(g, [Base EXCEPT !.op = "tupleRest", !.kind = "TupleType",
                              !.subs = SubSeq(patterns, 1, Len(patterns) - 1),
                              !.rest = g[patterns[Len(patterns)]].subs[1]])
  ELSE Append(g, [Base EXCEPT !.op = "tuple", !.kind = "TupleType", !.subs = patterns])

ast_union(g, patterns) ==
  Append(g, [Base EXCEPT !.op = "union", !.kind = "UnionType", !.subs = patterns])
ast_intersection(g, patterns) ==
  Append(g, [Base EXCEPT !.op = "intersection", !.kind = "IntersectionType", !.subs = patterns])
\* ast.contains(pattern, until?): subs is <<pattern>> or <<pattern, until>>
ast_contains(g, subs) == Append(g, [Base EXCEPT !.op = "contains", !.kind = "Unknown", !.subs = subs])
ast_unwrap(g, p) == Append(g, [Base EXCEPT !.op = "unwrap", !.kind = "Unknown", !.subs = <<p>>])

\* single(pattern) as the match of a pattern of kind `kind` whose params hold
\* the patterns pvals in an array ("arr"), a plain object ("obj") or not ("")
Single(g, kind, inner, ptype, pvals) ==
  Append(g, [Base EXCEPT !.op = "single", !.kind = kind, !.subs = <<inner>>,
                         !.ptype = ptype, !.pvals = pvals])

syntaxListKinds == {"SyntaxList", "TupleType", "RestType"}
\* getArguments(...args): the graph after it, and the pattern it returns
\* (-1: undefined); a single pattern of a list kind is returned as it is
\* (ReturnsFirst_Never, a wrong reading, wraps it in a tuple as well)
ReturnsFirst_Never(g, args) == FALSE
ReturnsFirst(g, args) == Len(args) = 1 /\ g[args[1]].kind \in syntaxListKinds
getArguments(g, args) ==
  IF Len(args) = 0 \/ ReturnsFirst(g, args) THEN g ELSE ast_tuple(g, args)
getArgumentsId(g, args) ==
  IF Len(args) = 0 THEN -1 ELSE IF ReturnsFirst(g, args) THEN args[1] ELSE Len(g) + 1

\* ast.callExpression(name, ...args) with name a pattern
callExpressionOn(g, namePattern, args) ==
  Single(ast_node(getArguments(g, args), "CallExpression", <<"expression", "arguments">>,
                  <<namePattern, getArgumentsId(g, args)>>),
         "CallExpression", Len(getArguments(g, args)) + 1, "arr", args)
\* ast.callExpression(name, ...args) with name a string: getNamePattern
\* makes it ast.identifier(name)
ast_callExpression(g, name, args) ==
  callExpressionOn(ast_identifier(g, name), Len(g) + 1, args)

\* ast.object(properties, isPartial): one ast.node(PropertyAssignment) per
\* entry, in a tuple or (partial) in every(union)
RECURSIVE objectProps(_, _, _, _, _)
objectProps(g, keys, vals, i, props) ==
  IF i > Len(keys) THEN [g |-> g, props |-> props]
  ELSE objectProps(ast_node(ast_identifier(g, keys[i]), "PropertyAssignment",
                            <<"name", "initializer">>, <<Len(g) + 1, vals[i]>>),
                   keys, vals, i + 1, Append(props, Len(g) + 2))
\* (objectList_Tuple, a wrong reading, makes a tuple also of a partial object)
objectList_Tuple(r, isPartial) == ast_tuple(r.g, r.props)
objectList(r, isPartial) ==
  IF isPartial THEN ast_every(ast_union(r.g, r.props), Len(r.g) + 1, NoOpts)
  ELSE ast_tuple(r.g, r.props)
\* the pattern returned keeps the properties it was given in its params
\* (their keys in `keys`) and isPartial in the closure of its predicate
objectOn(gl, keys, vals, isPartial) ==
  [Single(ast_node(gl, "ObjectLiteralExpression", <<"properties">>, <<Len(gl)>>),
          "ObjectLiteralExpression", Len(gl) + 1, "obj", vals)
     EXCEPT ![Len(gl) + 2].keys = keys, ![Len(gl) + 2].isPartial = isPartial]
ast_object(g, keys, vals, isPartial) ==
  objectOn(objectList(objectProps(g, keys, vals, 1, <<>>), isPartial), keys, vals, isPartial)
\* ast.object() without properties
ast_object0(g) ==
  Single(ast_node0(g, "ObjectLiteralExpression"), "ObjectLiteralExpression", Len(g) + 1, "", <<>>)

\* The values ast.literal may be called with: ty is what the value is
\* ("noarg": called without an argument), s / n / b its content
JSValue(ty, s, n, b) == [ty |-> ty, s |-> s, n |-> n, b |-> b]
\* typeof value
typeofJS(value) == IF value.ty \in {"null", "object", "array"} THEN "object" ELSE value.ty
\* ast.literal(value): whether the switch ends in the throwing default
literalThrows(value) ==
  /\ value.ty # "noarg"
  /\ typeofJS(value) \notin {"string", "number", "boolean", "object", "undefined"}
\* ast.literal(value): the pattern returned when it does not throw
ast_literal(g, value) ==
  IF value.ty = "noarg" THEN ast_when(g, "isLiteral")
  ELSE CASE typeofJS(value) = "string" -> ast_string(g, value.s)
         [] typeofJS(value) = "number" -> ast_number(g, value.n)
         [] typeofJS(value) = "boolean" -> ast_boolean(g, value.b)
         [] typeofJS(value) = "object" -> ast_null(g)
         [] typeofJS(value) = "undefined" -> ast_undefined(g)
         [] OTHER -> g

\* pattern.ref(name) chained at construction, on the pattern built last
withRef(g, name) == [g EXCEPT ![Len(g)].ref = name]
\* ast.ref(name) == ast.maybeNode(ast.any()).ref(name)
ast_ref(g, name) == withRef(ast_maybeNode(ast_any(g), <<Len(g) + 1>>), name)

(***************************************************************************)
(* Caller-supplied callbacks of ast.when / ast.refine, by name.            *)
(*   "true" / "false" / "undef"  constant results                          *)
(*   "parent"  n => n.getParent()        (nothing for a list)              *)
(*   "list"    n => [n],  l => l.slice(1)   (a new array each time)        *)
(*   "first"   l => l[0]                 (nothing for a node)              *)
(***************************************************************************)
Callbacks == {"true", "false", "undef", "parent", "list", "first"}

callback(fn, x, h) ==
  CASE fn = "true" -> [v |-> BoolV(TRUE), h |-> h]
    [] fn = "false" -> [v |-> BoolV(FALSE), h |-> h]
    [] fn = "parent" -> [v |-> IF IsNode(x) THEN ParentOf(x) ELSE Undef, h |-> h]
    [] fn = "list" -> [v |-> IF IsNode(x) THEN ListV(h, <<x.id>>)
                             ELSE ListV(h, IF Len(x.elems) = 0 THEN <<>> ELSE Tail(x.elems)),
                       h |-> h + 1]
    [] fn = "first" -> [v |-> IF IsArray(x) /\ Len(x.elems) > 0 THEN NodeV(x.elems[1]) ELSE Undef,
                        h |-> h]
    \* the condition of ast.literal(): (node) => Array.isArray(node) ? undefined : isLiteral(node)
    [] fn = "isLiteral" -> [v |-> IF IsArray(x) THEN Undef ELSE BoolV(isLiteral(x)), h |-> h]
    [] OTHER -> [v |-> Undef, h |-> h]

(***************************************************************************)
(* Pattern.match and the match predicates of the combinators.              *)
(* The mutable state threaded through an evaluation is                     *)
(*   st = [lm: lastMatch of every pattern, ms: matches of every pattern    *)
(*         (a Set, kept in insertion order), h: next free object id,       *)
(*         sn: the `seen` set of every ast.contains pattern]               *)
(***************************************************************************)
\* a wrong reading of PickMatch: the input is recorded whatever the predicate returned
PickMatch_AlwaysInput(result, node) == node

\* const match = Node.isNode(result) ? result : node
PickMatch(result, node) == IF IsNode(result) THEN result ELSE node

\* a wrong reading of SetAdd: a list that appends without looking for the value
SetAdd_Append(set, v) == Append(set, v)

\* Set.prototype.add: no effect when the value (same identity) is present
SetAdd(set, v) == IF \E i \in 1..Len(set) : set[i] = v THEN set ELSE Append(set, v)

\* this.lastMatch = match; this.matches.add(match)
\* (Record_NoLast, a wrong reading, leaves lastMatch as it was)
Record_NoLast(st, p, match) == [st EXCEPT !.ms[p] = SetAdd(st.ms[p], match)]
Record(st, p, match) ==
  [st EXCEPT !.lm[p] = match, !.ms[p] = SetAdd(st.ms[p], match)]

\* nodeList / every / some: the two length checks on _opts.min and _opts.max
ListBoundsOk(pat, len) ==
  /\ ~(len < pat.min)
  /\ ~(pat.hasMax /\ pat.max # 0 /\ len > pat.max)

\* a wrong reading of TupleLengthOk: only longer lists are turned away
TupleLengthOk_AtMost(pat, len) == len <= Len(pat.subs)

\* fixed tuple: nodeList.length !== patterns.length fails
TupleLengthOk(pat, len) == len = Len(pat.subs)
\* a wrong reading of TupleRestLengthOk: the length check is left out
TupleRestLengthOk_Always(pat, len) == TRUE

\* tuple with rest: nodeList.length < patterns.length fails
TupleRestLengthOk(pat, len) == ~(len < Len(pat.subs))
\* tuple with rest: const pattern = patterns[index] ?? restPattern
TupleRestPatternAt(pat, index) == IF index <= Len(pat.subs) THEN pat.subs[index] ELSE pat.rest

\* ast.node on an absent (falsy) slot: TRUE = "return true", FALSE = "return false"
AbsentSlotResult(pat) == pat.kind = "JSDocUnknownType"

(***************************************************************************)
(* The evaluation of a match call is run as a machine with an explicit     *)
(* call stack: a configuration is                                          *)
(*   [k: the stack of frames, innermost last; v: the value the call that   *)
(*    ended last returned; raw: what its predicate returned; st]           *)
(* and a frame [p, node, i, ph] is the call pats[p].match(node), where ph  *)
(* is "start" (predicate entered), "iter" (at round i of its loop) or      *)
(* "wait" (the sub-pattern call of round i is running).                    *)
(***************************************************************************)
Frame(p, node) == [p |-> p, node |-> node, i |-> 0, ph |-> "start"]
TopFrame(c) == c.k[Len(c.k)]
Pop(k) == SubSeq(k, 1, Len(k) - 1)

\* the predicate of the innermost call returned `result`: the rest of
\* Pattern.match (lines 52-58), and back to the caller
Return(c, result) ==
  LET f == TopFrame(c)
  IN IF Truthy(result)
     THEN LET match == PickMatch(result, f.node)
          IN [k |-> Pop(c.k), v |-> match, raw |-> result, st |-> Record(c.st, f.p, match)]
     ELSE [k |-> Pop(c.k), v |-> Undef, raw |-> result, st |-> c.st]

\* the same when the predicate ends on a call r of a caller-supplied function
ReturnFrom(c, r) == Return([c EXCEPT !.st.h = r.h], r.v)

\* the innermost call goes to round i of its loop
Goto(c, i) == [c EXCEPT !.k[Len(c.k)].i = i, !.k[Len(c.k)].ph = "iter"]

\* the innermost call, in round i, calls sub.match(node)
Call(c, i, sub, node) ==
  [c EXCEPT !.k = Append([c.k EXCEPT ![Len(c.k)].i = i, ![Len(c.k)].ph = "wait"],
                         Frame(sub, node))]

\* the same, the caller waiting in phase ph
CallIn(c, i, ph, sub, node) ==
  [c EXCEPT !.k = Append([c.k EXCEPT ![Len(c.k)].i = i, ![Len(c.k)].ph = ph],
                         Frame(sub, node))]

\* ast.contains, the callback on the i-th descendant `child`: a child seen
\* before is passed over, else until (if given) is tried on it first
\* (ContainsVisit_NoUntil, a wrong reading, never tries until)
ContainsVisit_NoUntil(c, p, i, subs, child) ==
  IF child \in c.st.sn[p] THEN Goto(c, i + 1)
  ELSE CallIn(c, i, "inside", subs[1], NodeV(child))
ContainsVisit(c, p, i, subs, child) ==
  IF child \in c.st.sn[p] THEN Goto(c, i + 1)
  ELSE IF Len(subs) > 1 THEN CallIn(c, i, "until", subs[2], NodeV(child))
  ELSE CallIn(c, i, "inside", subs[1], NodeV(child))
\* what the callback hands back when the pattern matched the child: the
\* node searched (ContainsFound), not the child (ContainsFound_Child, a
\* wrong reading)
ContainsFound_Child(node, child) == child
ContainsFound(node, child) == node
\* seen.add(child) (SeenAdd_Subtree, a wrong reading, also takes all that
\* is under the child as seen)
SeenAdd_Subtree(c, p, child) ==
  [c EXCEPT !.st.sn[p] = @ \cup {child} \cup {d \in 1..NumNodes : HasAncestor(d, child)}]
SeenAdd(c, p, child) == [c EXCEPT !.st.sn[p] = @ \cup {child}]

\* Array.prototype.some hands back true (UnionHit), not what the callback
\* returned (UnionHit_SubResult, a wrong reading)
UnionHit_SubResult(v) == v
UnionHit(v) == BoolV(TRUE)

\* ast.named on a node: the name of a node that has one is compared, an
\* identifier with the text hands back its parent (NamedResult_NoRedirect,
\* a wrong reading, hands back true)
NamedResult_NoRedirect(node, name) ==
  IF HasName(node) THEN BoolV(NameOf(node) = name)
  ELSE IF IsIdentifier(node) /\ TextOf(node) = name THEN BoolV(TRUE)
  ELSE Undef
NamedResult(node, name) ==
  IF HasName(node) THEN BoolV(NameOf(node) = name)
  ELSE IF IsIdentifier(node) /\ TextOf(node) = name THEN ParentOf(node)
  ELSE Undef

\* the predicate is entered: the checks before its first sub-pattern call
Enter(c) ==
  LET f == TopFrame(c)
      pat == pats[f.p]
      node == f.node
  IN
  CASE pat.op = "kind" ->
         IF IsArray(node) THEN Return(c, Undef) ELSE Return(c, BoolV(KindOf(node) = pat.kind))
    [] pat.op = "node" ->
         IF IsArray(node) THEN Return(c, BoolV(FALSE))
         ELSE IF KindOf(node) # pat.kind THEN Return(c, BoolV(FALSE))
         ELSE IF ~pat.hasProps THEN Return(c, BoolV(TRUE))
         ELSE Goto(c, 1)
    [] pat.op = "nodeList" ->
         IF ~IsArray(node) THEN Return(c, Undef)
         ELSE IF ~ListBoundsOk(pat, Len(node.elems)) THEN Return(c, Undef)
         ELSE IF Len(pat.subs) > 0 THEN Call(c, 1, pat.subs[1], node)
         ELSE Return(c, BoolV(TRUE))
    [] pat.op \in {"every", "some"} ->
         IF ~IsArray(node) THEN Return(c, Undef)
         ELSE IF ~ListBoundsOk(pat, Len(node.elems)) THEN Return(c, Undef)
         ELSE Goto(c, 1)
    [] pat.op = "maybeNode" ->
         IF Len(pat.subs) > 0 THEN Call(c, 1, pat.subs[1], node) ELSE Return(c, BoolV(TRUE))
    [] pat.op = "any" -> Return(c, BoolV(TRUE))
    [] pat.op \in {"not", "refine"} -> Call(c, 1, pat.subs[1], node)
    [] pat.op = "contains" ->
         IF IsArray(node) THEN Return(c, Undef) ELSE Goto(c, 1)
    [] pat.op = "single" ->
         IF IsArray(node) THEN Return(c, Undef) ELSE Call(c, 1, pat.subs[1], node)
    [] pat.op = "unwrap" ->
         IF IsArray(node) THEN Return(c, Undef)
         ELSE Call(c, 1, pat.subs[1], unwrapExpression(node))
    [] pat.op = "when" ->
         ReturnFrom(c, callback(pat.fn, node, c.st.h))
    [] pat.op = "named" ->
         IF IsArray(node) THEN Return(c, Undef) ELSE Return(c, NamedResult(node, pat.name))
    [] pat.op = "identifier" ->
         Return(c, BoolV(~IsArray(node) /\ IsIdentifier(node) /\ TextOf(node) = pat.name))
    [] pat.op = "number" ->
         IF IsArray(node) THEN Return(c, Undef)
         ELSE IF KindOf(node) = "NumericLiteral"
              THEN Return(c, BoolV(IF pat.hasVal THEN NumOf(node) = pat.num ELSE TRUE))
         ELSE Return(c, Undef)
    [] pat.op = "string" ->
         IF IsArray(node) THEN Return(c, Undef)
         ELSE IF isStringLike(node)
              THEN Return(c, BoolV(IF pat.hasVal THEN LiteralTextOf(node) = pat.name ELSE TRUE))
         ELSE Return(c, Undef)
    [] pat.op = "null" ->
         IF IsArray(node) THEN Return(c, Undef)
         ELSE IF KindOf(node) = "NullKeyword" THEN Return(c, BoolV(TRUE))
         ELSE Return(c, Undef)
    [] pat.op = "undefined" ->
         IF IsArray(node) THEN Return(c, Undef)
         ELSE IF IsIdentifier(node) /\ TextOf(node) = "undefined" THEN Return(c, BoolV(TRUE))
         ELSE Return(c, Undef)
    [] pat.op = "array" ->
         IF IsArray(node) THEN Return(c, Undef)
         ELSE IF KindOf(node) # "ArrayLiteralExpression" THEN Return(c, Undef)
         ELSE IF Len(pat.subs) = 0 THEN Return(c, BoolV(TRUE))
         ELSE IF Len(getElements(node)) = 0 THEN Return(c, BoolV(FALSE))
         ELSE Goto(c, 1)
    [] pat.op = "boolean" ->
         IF IsArray(node) THEN Return(c, Undef)
         ELSE IF KindOf(node) \in {"TrueKeyword", "FalseKeyword"}
              THEN Return(c, BoolV(IF pat.hasVal THEN (KindOf(node) = "TrueKeyword") = pat.bval
                                   ELSE TRUE))
         ELSE Return(c, Undef)
    [] pat.op = "tuple" ->
         IF ~IsArray(node) THEN Return(c, Undef)
         ELSE IF ~TupleLengthOk(pat, Len(node.elems)) THEN Return(c, Undef)
         ELSE Goto(c, 1)
    [] pat.op = "tupleRest" ->
         IF ~IsArray(node) THEN Return(c, Undef)
         ELSE IF ~TupleRestLengthOk(pat, Len(node.elems)) THEN Return(c, Undef)
         ELSE Goto(c, 1)
    [] pat.op = "rest" ->
         IF ~IsArray(node) THEN Return(c, Undef) ELSE Goto(c, 1)
    [] pat.op \in {"union", "intersection"} -> Goto(c, 1)
    [] OTHER -> Return(c, Undef)

\* ast.node, entry i of the properties: the slot read `got` is judged, and
\* the pattern of the entry is called on what it holds
NodeSlotCall(c, i, sub, prop) == Call([c EXCEPT !.st.h = prop.h], i, sub, prop.v)
NodeSlot(c, i, sub, got) ==
  IF ~Truthy(got.v)
  THEN Return([c EXCEPT !.st.h = got.h], BoolV(AbsentSlotResult(pats[sub])))
  ELSE IF got.v.t = "bool"
       THEN NodeSlotCall(c, i, sub, booleans(got.v, got.h))
       ELSE NodeSlotCall(c, i, sub, got)

\* ast.intersection: what the pattern of round i is called with, the input
\* of the intersection (IntersectionInput), not the value the pattern of
\* the round before returned (IntersectionInput_Chained, a wrong reading)
IntersectionInput_Chained(nodeList, i, prev) == IF i > 1 THEN prev ELSE nodeList
IntersectionInput(nodeList, i, prev) == nodeList

\* ast.node, entry i of the properties has no pattern (null): a warning
\* is logged and the loop continues with the next entry
\* (MissingPattern_Fails, a wrong reading, returns false)
MissingPattern_Fails(c, i) == Return(c, BoolV(FALSE))
MissingPattern(c, i) == Goto(c, i + 1)

\* Array.prototype.every, and the loop of ast.node (if (!match) return
\* false): a falsy result of the sub-pattern call ends the loop
\* (EveryStops_Never, a wrong reading, goes on to the next round)
EveryStops_Never(v) == FALSE
EveryStops(v) == ~Truthy(v)

\* round i of the loop of the predicate: the loop ends, or the sub-pattern
\* of this round is called
Iter(c) ==
  LET f == TopFrame(c)
      pat == pats[f.p]
      node == f.node
      i == f.i
  IN
  CASE pat.op \in {"every", "rest"} ->
         \* nodeList.every((child) => pattern.match(child))
         IF i > Len(node.elems) THEN Return(c, BoolV(TRUE))
         ELSE Call(c, i, pat.subs[1], NodeV(node.elems[i]))
    [] pat.op = "some" ->
         \* nodeList.some((child) => pattern.match(child))
         IF i > Len(node.elems) THEN Return(c, BoolV(FALSE))
         ELSE Call(c, i, pat.subs[1], NodeV(node.elems[i]))
    [] pat.op = "array" ->
         \* elements.every((child) => pattern.match(child))
         IF i > Len(getElements(node)) THEN Return(c, BoolV(TRUE))
         ELSE Call(c, i, pat.subs[1], NodeV(getElements(node)[i]))
    [] pat.op = "tuple" ->
         \* nodeList.every((child, index) => patterns[index].match(child))
         IF i > Len(node.elems) THEN Return(c, BoolV(TRUE))
         ELSE IF i > Len(pat.subs) THEN Return(c, BoolV(FALSE))
         ELSE Call(c, i, pat.subs[i], NodeV(node.elems[i]))
    [] pat.op = "tupleRest" ->
         IF i > Len(node.elems) THEN Return(c, BoolV(TRUE))
         ELSE Call(c, i, TupleRestPatternAt(pat, i), NodeV(node.elems[i]))
    [] pat.op = "union" ->
         \* patterns.some((pattern) => pattern.match(node))
         IF i > Len(pat.subs) THEN Return(c, BoolV(FALSE)) ELSE Call(c, i, pat.subs[i], node)
    [] pat.op = "intersection" ->
         \* patterns.every((pattern) => pattern.match(nodeList))
         IF i > Len(pat.subs) THEN Return(c, BoolV(TRUE))
         ELSE Call(c, i, pat.subs[i], IntersectionInput(node, i, c.v))
    [] pat.op = "contains" ->
         \* node.forEachDescendant((child, traversal) => ...)
         IF i > Len(Descendants(node.id)) THEN Return(c, Undef)
         ELSE ContainsVisit(c, f.p, i, pat.subs, Descendants(node.id)[i])
    [] pat.op = "node" ->
         \* for (const [key, _pattern] of Object.entries(_props))
         IF i > Len(pat.subs) THEN Return(c, BoolV(TRUE))
         ELSE IF pat.subs[i] = NullPat THEN MissingPattern(c, i)
         ELSE NodeSlot(c, i, pat.subs[i], getNodeProperty(node, pat.keys[i], c.st.h))
    [] OTHER -> Return(c, Undef)

\* the sub-pattern call of round i returned c.v
Resume(c) ==
  LET f == TopFrame(c)
      pat == pats[f.p]
  IN
  CASE pat.op \in {"every", "rest", "tuple", "tupleRest", "intersection", "node", "array"} ->
         IF EveryStops(c.v) THEN Return(c, BoolV(FALSE)) ELSE Goto(c, f.i + 1)
    [] pat.op = "some" ->
         IF Truthy(c.v) THEN Return(c, BoolV(TRUE)) ELSE Goto(c, f.i + 1)
    [] pat.op = "union" ->
         IF Truthy(c.v) THEN Return(c, UnionHit(c.v)) ELSE Goto(c, f.i + 1)
    [] pat.op \in {"nodeList", "maybeNode", "unwrap"} ->
         \* return pattern.match(node)
         Return(c, c.v)
    [] pat.op = "contains" /\ f.ph = "until" ->
         \* if (until && until.match(child)) { traversal.stop(); return }
         IF Truthy(c.v) THEN Return(c, Undef)
         ELSE CallIn(c, f.i, "inside", pat.subs[1], NodeV(Descendants(f.node.id)[f.i]))
    [] pat.op = "contains" ->
         IF Truthy(c.v) THEN Return(c, ContainsFound(f.node, NodeV(Descendants(f.node.id)[f.i])))
         ELSE Goto(SeenAdd(c, f.p, Descendants(f.node.id)[f.i]), f.i + 1)
    [] pat.op = "single" ->
         \* return Boolean(pattern.match(node))
         Return(c, BoolV(Truthy(c.v)))
    [] pat.op = "not" -> Return(c, BoolV(~Truthy(c.v)))
    [] pat.op = "refine" ->
         IF ~Truthy(c.v) THEN Return(c, Undef)
         ELSE ReturnFrom(c, callback(pat.fn, f.node, c.st.h))
    [] OTHER -> Return(c, Undef)

Step(c) ==
  CASE TopFrame(c).ph = "start" -> Enter(c)
    [] TopFrame(c).ph = "iter" -> Iter(c)
    [] OTHER -> Resume(c)

RECURSIVE Run(_)
Run(c) == IF Len(c.k) = 0 THEN c ELSE Run(Step(c))

\* Pattern.match(node) on pattern p in state st: the value returned, the
\* state after, and what the predicate of p returned
Match(p, node, st) ==
  LET c == Run([k |-> <<Frame(p, node)>>, v |-> Undef, raw |-> Undef, st |-> st])
  IN [v |-> c.v, st |-> c.st, result |-> c.raw]

(***************************************************************************)
(* Pattern.collectCaptures                                                 *)
(***************************************************************************)
CaptureNames == {"fn", "arg1", "arg2", "rest"}
NoCaptures == [n \in CaptureNames |-> 0]

\* this.params as the factory set it, as entries in key order:
\*   "pat" a Pattern, "arr" an array of Patterns, "obj" a plain object whose
\*   values are Patterns; primitives and functions are left out (the loop
\*   skips them), and <<>> also stands for params === undefined
E(t, ps) == [t |-> t, ps |-> ps]
Params(pat) ==
  CASE pat.op = "node" -> IF pat.hasProps THEN <<E("obj", pat.subs)>> ELSE <<>>
    [] pat.op \in {"nodeList", "every", "some", "maybeNode", "not", "refine", "rest", "unwrap",
                   "array"} ->
         IF Len(pat.subs) > 0 THEN <<E("pat", pat.subs)>> ELSE <<>>
    [] pat.op = "tuple" -> <<E("arr", pat.subs)>>
    [] pat.op = "tupleRest" -> <<E("arr", pat.subs), E("pat", <<pat.rest>>)>>
    [] pat.op \in {"union", "intersection"} -> <<E("arr", pat.subs)>>
    [] pat.op = "single" -> IF pat.ptype = "" THEN <<>> ELSE <<E(pat.ptype, pat.pvals)>>
    [] pat.op = "contains" ->
         IF Len(pat.subs) > 1 THEN <<E("pat", <<pat.subs[1]>>), E("pat", <<pat.subs[2]>>)>>
         ELSE <<E("pat", <<pat.subs[1]>>)>>
    [] OTHER -> <<>>

\* Object.assign(captures, nested): the entries of nested replace those of
\* captures (ObjectAssign_FirstWins, a wrong reading, keeps those of captures)
ObjectAssign_FirstWins(captures, nested) ==
  [n \in CaptureNames |-> IF captures[n] # 0 THEN captures[n] ELSE nested[n]]
ObjectAssign(captures, nested) ==
  [n \in CaptureNames |-> IF nested[n] # 0 THEN nested[n] ELSE captures[n]]

\* if (value.refName) captures[value.refName] = value
\* (SetCapture_Ignore, a wrong reading, leaves the pattern out)
SetCapture_Ignore(captures, name, p) == captures
SetCapture(captures, name, p) ==
  IF name # "" /\ name \in CaptureNames THEN [captures EXCEPT ![name] = p] ELSE captures

RECURSIVE collectCaptures(_, _)
RECURSIVE CollectPatterns(_, _, _, _)
RECURSIVE CollectEntries(_, _, _, _, _)
RECURSIVE CollectStack(_, _, _)

\* the Pattern values ps[i..] of one array or one object, in order
CollectPatterns(ps, i, rn, captures) ==
  IF i > Len(ps) THEN captures
  ELSE IF ps[i] = NullPat THEN CollectPatterns(ps, i + 1, rn, captures)
  ELSE CollectPatterns(ps, i + 1, rn,
         ObjectAssign(SetCapture(captures, rn[ps[i]], ps[i]), collectCaptures(ps[i], rn)))

\* the entries of this.params: patterns and arrays are handled at once,
\* plain objects are pushed on the stack
CollectEntries(entries, i, rn, captures, stack) ==
  IF i > Len(entries) THEN CollectStack(stack, rn, captures)
  ELSE IF entries[i].t = "obj"
       THEN CollectEntries(entries, i + 1, rn, captures, Append(stack, entries[i].ps))
       ELSE CollectEntries(entries, i + 1, rn,
              CollectPatterns(entries[i].ps, 1, rn, captures), stack)

\* while (stack.length > 0) { const obj = stack.pop() ... }
CollectStack(stack, rn, captures) ==
  IF Len(stack) = 0 THEN captures
  ELSE CollectStack(SubSeq(stack, 1, Len(stack) - 1), rn,
         CollectPatterns(stack[Len(stack)], 1, rn, captures))

\* rn is the refName of every pattern; the pattern itself is not looked at,
\* only what its params hold (collectCaptures_Self, a wrong reading, also
\* puts the pattern itself under its own name)
collectCaptures_Self(p, rn) ==
  IF Params(pats[p]) = <<>> THEN NoCaptures
  ELSE SetCapture(CollectEntries(Params(pats[p]), 1, rn, NoCaptures, <<>>), rn[p], p)
collectCaptures(p, rn) ==
  IF Params(pats[p]) = <<>> THEN NoCaptures
  ELSE CollectEntries(Params(pats[p]), 1, rn, NoCaptures, <<>>)

(***************************************************************************)
(* Pattern.toString: the rendering of the recorded matches; rendering a    *)
(* match that is a node array throws (an array has no getKindName())       *)
(***************************************************************************)
toStringThrows(set) == \E i \in 1..Len(set) : IsArray(set[i])
toString(set) ==
  IF toStringThrows(set) THEN <<>>
  ELSE [i \in 1..Len(set) |-> [kind |-> KindOf(set[i]), text |-> TextOf(set[i])]]

(***************************************************************************)
(* The driver.  `cands` are the nodes and node lists it may hand to        *)
(* match(); lists it holds itself have the identities after the tree's.    *)
(* `hits` counts its match calls that returned a value and `satisfied`     *)
(* holds the inputs of those calls.                                        *)
(***************************************************************************)
DriverLists == << <<>>, <<16>>, <<17>>, <<16, 18>>, <<17, 16>>, <<16, 17, 18>>, <<16, 18, 25>> >>
DL(k) == ListV(NumNodes + k, DriverLists[k])
AllLists == {DL(k) : k \in 1..Len(DriverLists)}
AllNodes == {NodeV(i) : i \in 1..NumNodes}
FirstFree == NumNodes + Len(DriverLists) + 1

RefInputs == {"fn", "arg1"}

NoCall == [op |-> "none", input |-> Undef, result |-> Undef, ret |-> Undef,
           caps |-> NoCaptures, str |-> <<>>, threw |-> FALSE, name |-> "",
           value |-> JSValue("", "", 0, FALSE)]

top == Len(pats)
Pids == 1..Len(pats)

InitWith(g, c) ==
  /\ pats = g
  /\ cands = c
  /\ lastMatch = [p \in 1..Len(g) |-> Undef]
  /\ matches = [p \in 1..Len(g) |-> <<>>]
  /\ refName = [p \in 1..Len(g) |-> g[p].ref]
  /\ heap = FirstFree
  /\ seen = [p \in 1..Len(g) |-> {}]
  /\ call = NoCall
  /\ ncalls = 0
  /\ hits = 0
  /\ satisfied = {}

\* the state after pattern.match(input) ended as r
Matched(input, r) ==
  /\ lastMatch' = r.st.lm
  /\ matches' = r.st.ms
  /\ heap' = r.st.h
  /\ seen' = r.st.sn
  /\ call' = [NoCall EXCEPT !.op = "match", !.input = input, !.result = r.result, !.ret = r.v]
  /\ hits' = IF r.v # Undef THEN hits + 1 ELSE hits
  /\ satisfied' = IF r.v # Undef THEN satisfied \cup {input} ELSE satisfied

\* pattern.match(input)
DoMatch ==
  /\ ncalls < MaxCalls
  /\ \E input \in cands :
       Matched(input, Match(top, input,
                            [lm |-> lastMatch, ms |-> matches, h |-> heap, sn |-> seen]))
  /\ ncalls' = ncalls + 1
  /\ UNCHANGED <<pats, cands, refName>>

\* pattern.ref(name)
DoRef ==
  /\ ncalls < MaxCalls
  /\ \E name \in RefInputs :
       /\ refName' = [refName EXCEPT ![top] = name]
       /\ call' = [NoCall EXCEPT !.op = "ref", !.name = name]
  /\ ncalls' = ncalls + 1
  /\ UNCHANGED <<pats, cands, lastMatch, matches, heap, hits, seen, satisfied>>

\* pattern.collectCaptures()
DoCollectCaptures ==
  /\ ncalls < MaxCalls
  /\ call' = [NoCall EXCEPT !.op = "collectCaptures", !.caps = collectCaptures(top, refName)]
  /\ ncalls' = ncalls + 1
  /\ UNCHANGED <<pats, cands, lastMatch, matches, refName, heap, hits, seen, satisfied>>

\* pattern.toString()
DoToString ==
  /\ ncalls < MaxCalls
  /\ call' = [NoCall EXCEPT !.op = "toString", !.str = toString(matches[top]),
                            !.threw = toStringThrows(matches[top])]
  /\ ncalls' = ncalls + 1
  /\ UNCHANGED <<pats, cands, lastMatch, matches, refName, heap, hits, seen, satisfied>>

Next == DoMatch \/ DoRef \/ DoCollectCaptures \/ DoToString

(***************************************************************************)
(* Sessions on the match protocol itself: predicates with every shape of   *)
(* result (when / refine callbacks), redirecting and plain leaves.         *)
(***************************************************************************)
G0 == <<>>

CoreGraphs ==
  {ast_when(G0, fn) : fn \in Callbacks}
  \cup {ast_refine(ast_any(G0), 1, fn) : fn \in Callbacks}
  \cup {ast_refine(ast_named(G0, "aaa"), 1, "parent")}
  \cup {ast_named(G0, "aaa"), ast_identifier(G0, "aaa"), ast_kind(G0, "NumericLiteral"),
        ast_any(G0), ast_not(ast_kind(G0, "Identifier"), 1), ast_maybeNode(G0, <<>>),
        ast_nodeList(G0, <<>>, NoOpts), ast_nodeList(ast_when(G0, "first"), <<1>>, NoOpts),
        ast_ref(G0, "fn"),
        ast_node(ast_every(ast_kind(G0, "NumericLiteral"), 1, NoOpts),
                 "CallExpression", <<"arguments">>, <<2>>)}

CoreCands == {NodeV(4), NodeV(5), NodeV(14), NodeV(16), DL(1), DL(2), DL(4)}

InitCore == \E g \in CoreGraphs : InitWith(g, CoreCands)
SpecCore == InitCore /\ [][Next]_vars

\* the elements of a Set kept in insertion order
Elems(set) == {set[i] : i \in 1..Len(set)}

\* C1: Pattern.match(input): a node returned by the predicate is stored in
\* lastMatch, added to matches and returned; for plain true it is the input
\* that is stored, added and returned; for false/undefined match returns
\* undefined and the pattern's own lastMatch and matches stay as they were.
C1_MatchContract ==
  [][(ncalls' # ncalls /\ call'.op = "match") =>
       /\ IsNode(call'.result) =>
            /\ lastMatch'[top] = call'.result
            /\ call'.result \in Elems(matches'[top])
            /\ call'.ret = call'.result
       /\ call'.result = BoolV(TRUE) =>
            /\ lastMatch'[top] = call'.input
            /\ call'.input \in Elems(matches'[top])
            /\ call'.ret = call'.input
       /\ ~Truthy(call'.result) =>
            /\ call'.ret = Undef
            /\ lastMatch'[top] = lastMatch[top]
            /\ matches'[top] = matches[top]]_vars

\* C1 witness: a call whose predicate returned a node other than the input,
\* on a pattern that already held another match
C1_Witness ==
  /\ call.op = "match"
  /\ IsNode(call.result)
  /\ call.result # call.input
  /\ Len(matches[top]) >= 2

\* C2: when the predicate returns a truthy node list different from the
\* input, match() stores that list in lastMatch, adds it to matches and
\* returns it.
C2_ReturnedListRecorded ==
  (call.op = "match" /\ IsArray(call.result) /\ call.result # call.input) =>
     /\ call.ret = call.result
     /\ lastMatch[top] = call.result
     /\ call.result \in Elems(matches[top])

\* C3: the matches set of every pattern only grows (superset of what it was
\* before any call), and holds each value once.
NoDuplicates(set) == \A i, j \in 1..Len(set) : set[i] = set[j] => i = j
C3_MatchesOnlyGrow ==
  [][\A p \in Pids :
       /\ Elems(matches[p]) \subseteq Elems(matches'[p])
       /\ NoDuplicates(matches'[p])]_vars

\* C3 witness: the same value matched twice is held once, and the set has
\* survived a later toString call
C3_Witness ==
  /\ hits >= 2
  /\ Len(matches[top]) = 1
  /\ call.op = "toString"

(***************************************************************************)
(* Sessions on the structural matcher ast.node(kind, props)                *)
(***************************************************************************)
\* two declared slots, a leaf pattern and a maybeNode, in both orders
NodeGraphs ==
  {ast_node(ast_maybeNode(ast_identifier(G0, x), <<>>), "ExportSpecifier", ks, <<1, 2>>) :
     x \in {"aaa", "zzz"}, ks \in {<<"name", "propertyName">>, <<"propertyName", "name">>}}
  \cup {ast_node(ast_identifier(ast_maybeNode(G0, <<>>), x), "ExportSpecifier", ks, <<1, 2>>) :
     x \in {"aaa", "zzz"}, ks \in {<<"name", "propertyName">>, <<"propertyName", "name">>}}
  \cup {ast_node(ast_maybeNode(ast_identifier(G0, x), <<1>>), "ExportSpecifier", <<k>>, <<2>>) :
     x \in {"aaa", "zzz"}, k \in {"name", "propertyName"}}
  \cup {ast_node(ast_kind(ast_maybeNode(G0, <<>>), k), "ExportDeclaration",
                 <<"moduleSpecifier", "exportClause">>, <<1, 2>>) :
     k \in {"NamedExports", "NamespaceExport"}}
  \cup {ast_node(ast_any(G0), "ExportSpecifier", <<k>>, <<1>>) : k \in {"name", "propertyName"}}
  \cup {ast_node0(G0, "ExportSpecifier")}
  \cup {ast_node(ast_boolean(G0, v), k[1], <<k[2]>>, <<1>>) :
     v \in BOOLEAN, k \in {<<"ExportSpecifier", "isTypeOnly">>,
                           <<"ExportAssignment", "isExportEquals">>}}
  \cup {ast_node(ast_boolean0(G0), "ExportSpecifier", <<"isTypeOnly">>, <<1>>)}

NodeCands == {NodeV(2), NodeV(4), NodeV(5), NodeV(6), NodeV(8), DL(2)}

InitNode == \E g \in NodeGraphs : InitWith(g, NodeCands)
SpecNode == InitNode /\ [][Next]_vars

\* the state of patterns that have not been used
Fresh ==
  [lm |-> [q \in Pids |-> Undef], ms |-> [q \in Pids |-> <<>>], h |-> FirstFree,
   sn |-> [q \in Pids |-> {}]]
\* the slot of a tree node as the tree holds it
SlotOf(v, key) == SlotAt(v.id, key)
\* whether pattern p, taken alone with no history, matches value v
MatchesAlone(p, v) ==
  Match(p, v, Fresh).v # Undef

\* the last call was a match of an ast.node pattern with props on a tree
\* node of its kind
NodeCall ==
  /\ call.op = "match"
  /\ pats[top].op = "node" /\ pats[top].hasProps
  /\ IsTreeNode(call.input) /\ KindOf(call.input) = pats[top].kind

\* C4: ast.node on a node of the right kind succeeds iff every declared
\* slot is satisfied, where an absent slot is satisfied only by the
\* maybeNode sentinel and a present slot by its sub-pattern matching it,
\* whatever the order of the slots (stated for slots holding nodes/lists).
C4_SlotSatisfied(i) ==
  LET s == SlotOf(call.input, pats[top].keys[i])
      sub == pats[top].subs[i]
  IN CASE s.t = "absent" -> pats[sub].op = "maybeNode"
       [] s.t = "node" -> MatchesAlone(sub, NodeV(s.id))
       [] OTHER -> MatchesAlone(sub, ListV(FirstFree, s.elems))
C4_AllSlotsDecide ==
  (/\ NodeCall
   /\ \A i \in 1..Len(pats[top].keys) : SlotOf(call.input, pats[top].keys[i]).t # "bool")
  => ((call.ret # Undef) <=> \A i \in 1..Len(pats[top].subs) : C4_SlotSatisfied(i))

\* C5: with ast.boolean(v) as the sub-pattern of a slot holding a primitive
\* boolean, the slot (here the only one) is satisfied exactly when the flag
\* equals v, for v = true and for v = false.
C5_BooleanSlot ==
  (/\ NodeCall
   /\ Len(pats[top].subs) = 1
   /\ pats[pats[top].subs[1]].op = "boolean" /\ pats[pats[top].subs[1]].hasVal
   /\ SlotOf(call.input, pats[top].keys[1]).t = "bool")
  => ((call.ret # Undef) <=>
        (SlotOf(call.input, pats[top].keys[1]).b = pats[pats[top].subs[1]].bval))

(***************************************************************************)
(* Sessions on the collection combinators.  The element patterns are the   *)
(* leaves 1 = kind(NumericLiteral), 2 = kind(TrueKeyword), 3 = any().      *)
(***************************************************************************)
Leaves == ast_any(ast_kind(ast_kind(G0, "NumericLiteral"), "TrueKeyword"))

\* what the leaf p accepts, read off the tree
ElemOK(p, i) == pats[p].op = "any" \/ Tree[i].kind = pats[p].kind

PrefixChoices == {<<>>, <<1>>, <<2>>, <<1, 1>>, <<1, 2>>, <<2, 1>>}

TupleGraphs ==
  {ast_tuple(Leaves, ps) : ps \in PrefixChoices \cup {<<1, 2, 1>>}}
  \cup {ast_tuple(ast_rest(Leaves, r), ps \o <<4>>) : ps \in PrefixChoices, r \in {1, 3}}
  \cup {ast_rest(Leaves, 1)}

ListCands == AllLists \cup {NodeV(16)}

InitTuple == \E g \in TupleGraphs : InitWith(g, ListCands)
SpecTuple == InitTuple /\ [][Next]_vars

\* C6: a tuple without trailing rest matches a node list L iff |L| = n and
\* Pi matches L[i] for every i; it fails on every other length and on a
\* single node.
C6_FixedTuple ==
  (call.op = "match" /\ pats[top].op = "tuple") =>
    ((call.ret # Undef) <=>
       /\ IsArray(call.input)
       /\ Len(call.input.elems) = Len(pats[top].subs)
       /\ \A i \in 1..Len(call.input.elems) : ElemOK(pats[top].subs[i], call.input.elems[i]))

\* C6 witness: a two-pattern tuple matched a two-element list after it
\* had turned away another input
C6_Witness ==
  /\ call.op = "match" /\ pats[top].op = "tuple"
  /\ Len(pats[top].subs) = 2
  /\ call.ret # Undef
  /\ hits = 1 /\ ncalls >= 2

\* C7: tuple(P1..Pn, rest(R)) matches L iff |L| >= n, Pi matches L[i] for
\* i <= n and R matches every later element; |L| = n matches on the prefix.
C7_RestTuple ==
  (call.op = "match" /\ pats[top].op = "tupleRest") =>
    ((call.ret # Undef) <=>
       /\ IsArray(call.input)
       /\ Len(call.input.elems) >= Len(pats[top].subs)
       /\ \A i \in 1..Len(call.input.elems) :
            IF i <= Len(pats[top].subs)
            THEN ElemOK(pats[top].subs[i], call.input.elems[i])
            ELSE ElemOK(pats[top].rest, call.input.elems[i]))

\* C7 witness: a list of exactly n >= 1 elements matched (empty rest)
C7_Witness ==
  /\ call.op = "match" /\ pats[top].op = "tupleRest"
  /\ Len(pats[top].subs) >= 1
  /\ IsArray(call.input) /\ Len(call.input.elems) = Len(pats[top].subs)
  /\ call.ret # Undef

(***************************************************************************)
(* Sessions on every / some with cardinality options                       *)
(***************************************************************************)
OptChoices ==
  {Opts(hm, mn, hx, mx) : hm \in BOOLEAN, mn \in {0, 1, 2}, hx \in BOOLEAN, mx \in {0, 1, 2}}

EveryGraphs ==
  {ast_every(Leaves, p, o) : p \in {1, 3}, o \in OptChoices}
  \cup {ast_some(Leaves, p, o) : p \in {1, 3}, o \in OptChoices}

InitEvery == \E g \in EveryGraphs : InitWith(g, ListCands)
SpecEvery == InitEvery /\ [][Next]_vars

\* min <= |L| <= max, an omitted max meaning no upper bound
WithinBounds(pat, len) == pat.min <= len /\ (pat.hasMax => len <= pat.max)

\* C8: every(P, {min, max}) matches L iff min <= |L| <= max and P matches
\* every element, for every non-negative min and max.
C8_EveryBounds ==
  (call.op = "match" /\ pats[top].op = "every") =>
    ((call.ret # Undef) <=>
       /\ IsArray(call.input)
       /\ WithinBounds(pats[top], Len(call.input.elems))
       /\ \A i \in 1..Len(call.input.elems) : ElemOK(pats[top].subs[1], call.input.elems[i]))

\* C9: some(P, {min, max}) matches L iff min <= |L| <= max and P matches at
\* least one element; it fails outside [min, max] and on the empty list.
C9_SomeBounds ==
  (call.op = "match" /\ pats[top].op = "some") =>
    ((call.ret # Undef) <=>
       /\ IsArray(call.input)
       /\ WithinBounds(pats[top], Len(call.input.elems))
       /\ \E i \in 1..Len(call.input.elems) : ElemOK(pats[top].subs[1], call.input.elems[i]))

(***************************************************************************)
(* Sessions on ast.union.  The alternatives are 1 = named("aaa") (which    *)
(* redirects from the identifier to its parent), 2 = identifier("aaa"),    *)
(* 3 = any(), 4 = kind(NumericLiteral).                                    *)
(***************************************************************************)
UnionLeaves ==
  ast_kind(ast_any(ast_identifier(ast_named(G0, "aaa"), "aaa")), "NumericLiteral")

UnionGraphs ==
  {ast_union(UnionLeaves, <<a, b>>) : a, b \in {1, 2, 3, 4}}
  \cup {ast_union(UnionLeaves, <<4, 1, 3>>), ast_union(UnionLeaves, <<>>)}

UnionCands == {NodeV(4), NodeV(5), NodeV(7), NodeV(16), DL(2)}

InitUnion == \E g \in UnionGraphs : InitWith(g, UnionCands)
SpecUnion == InitUnion /\ [][Next]_vars

\* the value pattern p, taken alone with no history, returns for v
ValueAlone(p, v) ==
  Match(p, v, Fresh).v
\* the index of the first alternative of the union that matches v (0: none)
FirstMatching(subs, v) ==
  IF \E k \in 1..Len(subs) : MatchesAlone(subs[k], v)
  THEN CHOOSE k \in 1..Len(subs) :
         /\ MatchesAlone(subs[k], v)
         /\ \A j \in 1..(k - 1) : ~MatchesAlone(subs[j], v)
  ELSE 0

\* C10 as claimed: the value the union returns and records in its own
\* lastMatch/matches is the value the first succeeding pattern returned,
\* also when that pattern redirects to a node other than the input.
C10_UnionTakesFirstResult ==
  (call.op = "match" /\ pats[top].op = "union" /\ call.ret # Undef) =>
    LET a == ValueAlone(pats[top].subs[FirstMatching(pats[top].subs, call.input)], call.input)
    IN /\ call.ret = a
       /\ lastMatch[top] = a
       /\ a \in Elems(matches[top])

\* C10 amended: the union matches iff some alternative does; its patterns
\* are tried in declaration order up to the first that succeeds, which
\* records the value it returned, the later ones are not invoked; the
\* value the union itself returns and records is the original input.
C10_UnionRecordsInput ==
  [][(ncalls' # ncalls /\ call'.op = "match" /\ pats[top].op = "union") =>
       LET subs == pats[top].subs
           input == call'.input
           k == FirstMatching(subs, input)
       IN /\ (call'.ret # Undef) <=> (k # 0)
          /\ k # 0 =>
               /\ call'.ret = input
               /\ lastMatch'[top] = input
               /\ input \in Elems(matches'[top])
               /\ lastMatch'[subs[k]] = ValueAlone(subs[k], input)
               /\ \A j \in (k + 1)..Len(subs) :
                    subs[j] \notin {subs[i] : i \in 1..k} =>
                      /\ lastMatch'[subs[j]] = lastMatch[subs[j]]
                      /\ matches'[subs[j]] = matches[subs[j]]]_vars

\* C10 witness: both alternatives accept the input, the first one
\* redirected to another node, and the union recorded its input
C10_Witness ==
  /\ call.op = "match" /\ pats[top].op = "union" /\ call.ret # Undef
  /\ Len(pats[top].subs) = 2
  /\ MatchesAlone(pats[top].subs[1], call.input)
  /\ MatchesAlone(pats[top].subs[2], call.input)
  /\ ValueAlone(pats[top].subs[1], call.input) # call.input
  /\ lastMatch[top] = call.input

(***************************************************************************)
(* Sessions on ast.intersection, over the leaves of the union sessions.    *)
(***************************************************************************)
InterGraphs ==
  {ast_intersection(UnionLeaves, <<a, b>>) : a, b \in {1, 2, 3, 4}}
  \cup {ast_intersection(UnionLeaves, <<3, 1, 2>>), ast_intersection(UnionLeaves, <<>>)}

InitInter == \E g \in InterGraphs : InitWith(g, UnionCands)
SpecInter == InitInter /\ [][Next]_vars

\* C11: intersection(P1..Pn) matches an input iff every Pi matches that
\* same input; each Pi is invoked with the original input, never with the
\* value an earlier Pi returned, and the intersection records the input.
C11_IntersectionSameInput ==
  [][(ncalls' # ncalls /\ call'.op = "match" /\ pats[top].op = "intersection") =>
       LET subs == pats[top].subs
           input == call'.input
       IN /\ (call'.ret # Undef) <=> (\A k \in 1..Len(subs) : MatchesAlone(subs[k], input))
          /\ call'.ret # Undef =>
               /\ call'.ret = input
               /\ lastMatch'[top] = input
               /\ input \in Elems(matches'[top])
               /\ \A k \in 1..Len(subs) : lastMatch'[subs[k]] = ValueAlone(subs[k], input)]_vars

\* C11 witness: the intersection matched although its first pattern
\* redirected to a node the second pattern does not match
C11_Witness ==
  /\ call.op = "match" /\ pats[top].op = "intersection" /\ call.ret # Undef
  /\ Len(pats[top].subs) = 2
  /\ ValueAlone(pats[top].subs[1], call.input) # call.input
  /\ ~MatchesAlone(pats[top].subs[2], ValueAlone(pats[top].subs[1], call.input))
  /\ lastMatch[top] = call.input

\* C12: refine(base, transform): the transform is invoked only when base
\* matches, and on the value base matched (which differs from the input
\* when base redirects); a node it returns becomes refine's recorded
\* match, true records the input, false/undefined rejects.
C12_RefineOnMatchedValue ==
  (call.op = "match" /\ pats[top].op = "refine") =>
    LET base == pats[top].subs[1]
        matched == ValueAlone(base, call.input)
        r == callback(pats[top].fn, matched, FirstFree).v
    IN IF matched = Undef THEN call.ret = Undef
       ELSE /\ IsNode(r) => (call.ret = r /\ lastMatch[top] = r)
            /\ r = BoolV(TRUE) => (call.ret = call.input /\ lastMatch[top] = call.input)
            /\ ~Truthy(r) => call.ret = Undef

(***************************************************************************)
(* Sessions on ast.unwrap: the inputs are yyy under 0, 1 and 2 wrappers    *)
(* (as, parentheses) and under 0 to 4 wrappers (type assertion,            *)
(* parentheses, non-null, satisfies), and nodes that are not wrappers.      *)
(***************************************************************************)
UnwrapLeaves ==
  ast_kind(ast_kind(ast_any(ast_named(ast_identifier(G0, "yyy"), "yyy")), "NumericLiteral"),
           "ParenthesizedExpression")

UnwrapGraphs ==
  {ast_unwrap(UnwrapLeaves, a) : a \in 1..5}
  \cup {ast_unwrap(ast_unwrap(UnwrapLeaves, a), 6) : a \in 1..2}

UnwrapCands ==
  {NodeV(i) : i \in {8, 9, 10, 11, 16, 27, 28, 29, 30, 32}} \cup {DL(2)}

InitUnwrap == \E g \in UnwrapGraphs : InitWith(g, UnwrapCands)
SpecUnwrap == InitUnwrap /\ [][Next]_vars

WrapperKinds == {"AsExpression", "ParenthesizedExpression", "NonNullExpression",
                 "TypeAssertion", "SatisfiesExpression"}

\* C13: unwrap(P) on a node gives what P gives on the node under all its
\* wrappers, so the same recorded match for every number of wrappers, and
\* on a node that is not a wrapper what P gives on that node;
\* unwrapExpression never returns a wrapper and applying it twice equals
\* applying it once.
C13_UnwrapIdempotent ==
  /\ \A n \in AllNodes :
       /\ KindOf(unwrapExpression(n)) \notin WrapperKinds
       /\ unwrapExpression(unwrapExpression(n)) = unwrapExpression(n)
       /\ KindOf(n) \notin WrapperKinds => unwrapExpression(n) = n
  /\ (call.op = "match" /\ pats[top].op = "unwrap" /\ IsNode(call.input)) =>
       LET P == pats[top].subs[1]
       IN /\ call.ret = ValueAlone(P, unwrapExpression(call.input))
          /\ call.ret # Undef => lastMatch[top] = call.ret
          /\ \A n \in AllNodes :
               unwrapExpression(n) = unwrapExpression(call.input) =>
                 ValueAlone(top, n) = call.ret
          /\ KindOf(call.input) \notin WrapperKinds =>
               ((call.ret # Undef) <=> MatchesAlone(P, call.input))

\* C13 witness: yyy matched under four wrappers of four kinds
C13_Witness ==
  /\ call.op = "match" /\ pats[top].op = "unwrap"
  /\ call.input = NodeV(27)
  /\ call.ret = NodeV(32)
  /\ lastMatch[top] = NodeV(32)

(***************************************************************************)
(* Sessions on ast.contains.  The leaves are 1 = identifier("yyy"),        *)
(* 2 = identifier("fn"), 3 = kind(CallExpression), 4 = named("id") (which  *)
(* redirects), 5 = kind(ExportAssignment), 6 = kind(ObjectLiteralExpression)*)
(* and the searches start at the source file, at statements, at a call     *)
(* expression and at a leaf.                                               *)
(***************************************************************************)
ContainsLeaves ==
  ast_kind(ast_kind(ast_named(ast_kind(ast_identifier(ast_identifier(G0, "yyy"), "fn"),
                                       "CallExpression"), "id"),
                    "ExportAssignment"), "ObjectLiteralExpression")

ContainsGraphs ==
  {ast_contains(ContainsLeaves, <<a>>) : a \in 1..4}
  \cup {ast_contains(ContainsLeaves, <<a, b>>) : a \in 1..4, b \in {3, 5, 6}}

ContainsCands == {NodeV(i) : i \in {1, 8, 13, 14, 15, 19}} \cup {DL(2)}

InitContains == \E g \in ContainsGraphs : InitWith(g, ContainsCands)
SpecContains == InitContains /\ [][Next]_vars

\* the index in ds of the first node pattern p matches (0: none)
FirstHit(p, ds) ==
  IF \E k \in 1..Len(ds) : MatchesAlone(p, NodeV(ds[k]))
  THEN CHOOSE k \in 1..Len(ds) :
         /\ MatchesAlone(p, NodeV(ds[k]))
         /\ \A j \in 1..(k - 1) : ~MatchesAlone(p, NodeV(ds[j]))
  ELSE 0

\* C14: contains(P) with no until pattern matches a node n iff some proper
\* descendant of n satisfies P (n itself is not tested); on success the
\* value returned and recorded is n, not the descendant found.
C14_ContainsReturnsSearched ==
  (call.op = "match" /\ pats[top].op = "contains" /\ Len(pats[top].subs) = 1
     /\ IsNode(call.input)) =>
    /\ (call.ret # Undef) <=>
         (\E d \in 1..NumNodes :
            HasAncestor(d, call.input.id) /\ MatchesAlone(pats[top].subs[1], NodeV(d)))
    /\ call.ret # Undef =>
         /\ call.ret = call.input
         /\ lastMatch[top] = call.input
         /\ call.input \in Elems(matches[top])

\* C14 witness: a call expression that holds no other call expression was
\* searched for one without success, and then a statement holding it was
\* searched with success
C14_Witness ==
  /\ call.op = "match" /\ pats[top].op = "contains" /\ Len(pats[top].subs) = 1
  /\ pats[pats[top].subs[1]].kind = "CallExpression"
  /\ call.input = NodeV(13)
  /\ call.ret = NodeV(13)
  /\ 15 \in seen[top]

\* C15: contains(P, until): the descendants are inspected in depth-first
\* order and the search stops at the first one until matches; when that
\* boundary comes before every descendant satisfying P, contains returns no
\* match and nothing after the boundary is inspected.
C15_UntilStopsSearch ==
  [][(ncalls' # ncalls /\ call'.op = "match" /\ pats[top].op = "contains"
        /\ Len(pats[top].subs) = 2 /\ IsNode(call'.input)) =>
       LET P == pats[top].subs[1]
           U == pats[top].subs[2]
           D == Descendants(call'.input.id)
           B == FirstHit(U, D)
           F == FirstHit(P, D)
       IN (B # 0 /\ (F = 0 \/ B < F)) =>
            /\ call'.ret = Undef
            /\ seen'[top] = seen[top] \cup {D[j] : j \in 1..(B - 1)}
            /\ lastMatch'[U] = ValueAlone(U, NodeV(D[B]))
            /\ lastMatch'[P] = lastMatch[P]
            /\ matches'[P] = matches[P]]_vars

\* C15 witness: the boundary was met although a descendant satisfying P
\* comes later, outside the subtree of the boundary
C15_Witness ==
  /\ call.op = "match" /\ pats[top].op = "contains" /\ Len(pats[top].subs) = 2
  /\ IsNode(call.input) /\ call.ret = Undef
  /\ LET D == Descendants(call.input.id)
         B == FirstHit(pats[top].subs[2], D)
         F == FirstHit(pats[top].subs[1], D)
     IN /\ B > 1 /\ F > B
        /\ ~HasAncestor(D[F], D[B])
        /\ seen[top] = {D[j] : j \in 1..(B - 1)}

(***************************************************************************)
(* Sessions on ast.named and ast.identifier, on export specifiers and a    *)
(* property assignment (nodes with a name), their identifiers, and other   *)
(* nodes.                                                                  *)
(***************************************************************************)
Names == {"aaa", "bbb", "id", "zzz"}
NamedGraphs ==
  {ast_named(G0, n) : n \in Names} \cup {ast_identifier(G0, n) : n \in Names}

NamedCands == {NodeV(i) : i \in {4, 5, 6, 7, 16, 23, 24}} \cup {DL(2)}

InitNamed == \E g \in NamedGraphs : InitWith(g, NamedCands)
SpecNamed == InitNamed /\ [][Next]_vars

\* C16: named(name) matches a node that exposes a name iff that name is
\* `name`, recording the node itself, and matches an identifier whose text
\* is `name`, recording the identifier's parent; identifier(name) matches
\* only identifiers whose text is `name` and records the identifier.
C16_NamedAndIdentifier ==
  /\ (call.op = "match" /\ pats[top].op = "named" /\ IsNode(call.input)) =>
       /\ KindOf(call.input) \in {"ExportSpecifier", "PropertyAssignment"} =>
            /\ (call.ret # Undef) <=> (NameOf(call.input) = pats[top].name)
            /\ call.ret # Undef => (call.ret = call.input /\ lastMatch[top] = call.input)
       /\ (KindOf(call.input) = "Identifier" /\ TextOf(call.input) = pats[top].name) =>
            /\ call.ret = NodeV(Tree[call.input.id].parent)
            /\ lastMatch[top] = call.ret
            /\ call.ret \in Elems(matches[top])
  /\ (call.op = "match" /\ pats[top].op = "identifier") =>
       /\ (call.ret # Undef) <=>
            /\ IsNode(call.input)
            /\ KindOf(call.input) = "Identifier"
            /\ TextOf(call.input) = pats[top].name
       /\ call.ret # Undef => (call.ret = call.input /\ lastMatch[top] = call.input)

\* C16 witness: named("id") has matched the property assignment by its
\* name and, through the identifier id, by redirection: one recorded match
C16_Witness ==
  /\ call.op = "match" /\ pats[top].op = "named" /\ pats[top].name = "id"
  /\ call.input = NodeV(24)
  /\ call.ret = NodeV(23)
  /\ hits >= 2
  /\ matches[top] = <<NodeV(23)>>

(***************************************************************************)
(* Sessions on the shape of the input: one pattern of every leaf,          *)
(* structural and collection combinator, given nodes and node lists.       *)
(***************************************************************************)
ShapeGraphs ==
  {ast_kind(G0, "NumericLiteral"), ast_node0(G0, "CallExpression"),
   ast_node(ast_any(G0), "CallExpression", <<"arguments">>, <<1>>),
   ast_any(G0), ast_identifier(G0, "fn"), ast_named(G0, "id"),
   ast_string(G0, "str"), ast_string0(G0), ast_number(G0, 1), ast_boolean(G0, TRUE),
   ast_boolean0(G0), ast_null(G0), ast_undefined(G0),
   ast_array(G0, <<>>), ast_array(ast_any(G0), <<1>>),
   ast_callExpression(G0, "find", <<>>),
   ast_callExpression(ast_any(G0), "find", <<1>>),
   ast_object0(G0), ast_object(ast_number(G0, 1), <<"id">>, <<1>>, FALSE),
   ast_tuple(G0, <<>>), ast_tuple(ast_any(G0), <<1>>),
   ast_tuple(ast_rest(ast_any(G0), 1), <<2>>), ast_rest(ast_any(G0), 1),
   ast_every(ast_any(G0), 1, NoOpts), ast_some(ast_any(G0), 1, NoOpts),
   ast_nodeList(G0, <<>>, NoOpts), ast_nodeList(ast_any(G0), <<1>>, NoOpts)}

ShapeCands ==
  {NodeV(i) : i \in {14, 16, 17, 20, 22, 23, 35, 36, 37, 38}}
  \cup {DL(1), DL(2), DL(4), DL(6)}

InitShape == \E g \in ShapeGraphs : InitWith(g, ShapeCands)
SpecShape == InitShape /\ [][Next]_vars

\* the leaf and structural combinators other than any, and the collection
\* combinators
LeafOps == {"kind", "node", "identifier", "named", "string", "number", "boolean", "null",
            "undefined", "array", "single"}
CollectionOps == {"tuple", "tupleRest", "rest", "every", "some", "nodeList"}

ReadmeGraph ==
  ast_node(ast_tuple(ast_rest(ast_ref(ast_ref(ast_ref(ast_ref(G0, "fn"), "arg1"), "arg2"),
                                      "rest"), 8),
                     <<4, 6, 9>>),
           "CallExpression", <<"expression", "arguments">>, <<2, 10>>)

CaptureGraphs ==
  {ReadmeGraph,
   ast_tuple(ast_ref(ast_ref(G0, "fn"), "arg1"), <<2, 4>>),
   ast_tuple(ast_ref(ast_ref(G0, "fn"), "fn"), <<2, 4>>),
   ast_tuple(withRef(ast_maybeNode(ast_ref(G0, "fn"), <<2>>), "fn"), <<3>>),
   ast_tuple(ast_rest(ast_ref(ast_ref(G0, "rest"), "rest"), 4), <<2, 5>>),
   ast_node(ast_tuple(ast_ref(ast_ref(G0, "fn"), "fn"), <<4>>),
            "CallExpression", <<"expression", "arguments">>, <<2, 5>>),
   ast_node(ast_tuple(ast_ref(ast_ref(G0, "fn"), "fn"), <<4>>),
            "CallExpression", <<"arguments", "expression">>, <<5, 2>>),
   ast_object(ast_ref(ast_ref(G0, "arg1"), "arg2"), <<"id", "key">>, <<2, 4>>, FALSE),
   ast_callExpression(ast_ref(ast_ref(G0, "arg1"), "arg1"), "find", <<2, 4>>),
   ast_every(withRef(ast_union(ast_ref(ast_ref(G0, "arg1"), "arg2"), <<2, 4>>), "arg2"),
             5, NoOpts),
   ast_any(G0), ast_when(G0, "true")}

CaptureCands == {NodeV(14), NodeV(20), DL(6)}

InitCaptures == \E g \in CaptureGraphs : InitWith(g, CaptureCands)
SpecCaptures == InitCaptures /\ [][Next]_vars

\* the patterns held by the params of pattern p
ParamPatterns(p) ==
  UNION {{Params(pats[p])[i].ps[j] : j \in 1..Len(Params(pats[p])[i].ps)} :
           i \in 1..Len(Params(pats[p]))} \ {NullPat}
\* the patterns found in the params tree of pattern p
RECURSIVE ParamsClosure(_)
ParamsClosure(S) ==
  IF UNION {ParamPatterns(q) : q \in S} \subseteq S THEN S
  ELSE ParamsClosure(S \cup UNION {ParamPatterns(q) : q \in S})
ParamsTree(p) == ParamsClosure(ParamPatterns(p))
\* those that carry the capture name n
Carrying(p, n) == {q \in ParamsTree(p) : refName[q] = n}

\* C18: collectCaptures() returns an entry for every capture name carried
\* by a pattern found in the params tree (directly, in arrays, in nested
\* plain objects, and in those patterns' own params), mapping the name to
\* such a pattern, and no other entry; for the README pattern the keys are
\* exactly fn, arg1, arg2 and rest.
C18_CapturesComplete ==
  (call.op = "collectCaptures") =>
    /\ \A n \in CaptureNames :
         /\ (call.caps[n] # 0) <=> (Carrying(top, n) # {})
         /\ call.caps[n] # 0 => call.caps[n] \in Carrying(top, n)
    /\ pats = ReadmeGraph =>
         call.caps = [fn |-> 2, arg1 |-> 4, arg2 |-> 6, rest |-> 8]

\* C18 witness: the captures of the README pattern, collected after the
\* pattern itself was given a name carried inside it
C18_Witness ==
  /\ call.op = "collectCaptures"
  /\ pats = ReadmeGraph
  /\ refName[top] = "fn"
  /\ call.caps["fn"] = 2 /\ call.caps["rest"] = 8

\* the order in which collectCaptures on pattern p comes upon the patterns
\* of the params tree: the entries of params in order, a pattern followed
\* at once by what its own params hold, the plain objects after the other
\* entries, the one met last first
RECURSIVE VisitOrder(_)
RECURSIVE VisitAll(_, _)
RECURSIVE VisitEntries(_, _, _)
VisitAll(ps, i) ==
  IF i > Len(ps) THEN <<>>
  ELSE IF ps[i] = NullPat THEN VisitAll(ps, i + 1)
  ELSE <<ps[i]>> \o VisitOrder(ps[i]) \o VisitAll(ps, i + 1)
VisitEntries(entries, i, later) ==
  IF i > Len(entries) THEN later
  ELSE IF entries[i].t = "obj"
       THEN VisitEntries(entries, i + 1, VisitAll(entries[i].ps, 1) \o later)
       ELSE VisitAll(entries[i].ps, 1) \o VisitEntries(entries, i + 1, later)
VisitOrder(p) == VisitEntries(Params(pats[p]), 1, <<>>)

\* the last pattern of the sequence that carries the name n (0: none)
LastCarrying(visit, n) ==
  IF \E i \in 1..Len(visit) : refName[visit[i]] = n
  THEN visit[CHOOSE i \in 1..Len(visit) :
               /\ refName[visit[i]] = n
               /\ \A j \in (i + 1)..Len(visit) : refName[visit[j]] # n]
  ELSE 0

\* C19: collisions of capture names are last-write-wins: collectCaptures()
\* returns one pattern per name, the one visited last in traversal order;
\* when a named pattern holds in its own params a pattern with the same
\* name, the nested pattern is the one returned.
C19_LastWriteWins ==
  (call.op = "collectCaptures") =>
    /\ \A n \in CaptureNames : call.caps[n] = LastCarrying(VisitOrder(top), n)
    /\ \A q \in ParamsTree(top) :
         (refName[q] \in CaptureNames /\ Carrying(q, refName[q]) # {}) =>
           call.caps[refName[q]] # q

\* C19 witness: a pattern named fn holds a pattern named fn, and the
\* nested one was returned
C19_Witness ==
  /\ call.op = "collectCaptures"
  /\ \E q \in ParamsTree(top) :
       /\ refName[q] = "fn"
       /\ Carrying(q, "fn") # {}
       /\ call.caps["fn"] \in Carrying(q, "fn")

(***************************************************************************)
(* Sessions on ast.literal: patterns are built from values of every type   *)
(* and the pattern built last is matched against literal nodes.            *)
(***************************************************************************)
LiteralValues ==
  {JSValue("string", t, 0, FALSE) : t \in {"str", "zzz"}}
  \cup {JSValue("number", "", k, FALSE) : k \in {1, 3}}
  \cup {JSValue("boolean", "", 0, v) : v \in BOOLEAN}
  \cup {JSValue(ty, "", 0, FALSE) :
          ty \in {"null", "undefined", "noarg", "object", "array", "bigint", "symbol",
                  "function"}}

LiteralCands == {NodeV(i) : i \in {5, 16, 17, 36, 37, 38}} \cup {DL(2)}

InitLiteral == InitWith(G0, LiteralCands)

\* ast.literal(value): a throw leaves nothing behind, else the pattern
\* returned is the one the session goes on with
DoLiteral ==
  /\ ncalls < MaxCalls
  /\ \E value \in LiteralValues :
       IF literalThrows(value)
       THEN /\ call' = [NoCall EXCEPT !.op = "literal", !.value = value, !.threw = TRUE]
            /\ UNCHANGED <<pats, lastMatch, matches, refName, seen>>
       ELSE /\ call' = [NoCall EXCEPT !.op = "literal", !.value = value]
            /\ pats' = ast_literal(pats, value)
            /\ lastMatch' = Append(lastMatch, Undef)
            /\ matches' = Append(matches, <<>>)
            /\ refName' = Append(refName, "")
            /\ seen' = Append(seen, {})
  /\ ncalls' = ncalls + 1
  /\ UNCHANGED <<cands, heap, hits, satisfied>>

\* pattern.match(input) on the pattern built last
DoLiteralMatch == top > 0 /\ DoMatch

NextLiteral == DoLiteral \/ DoLiteralMatch
SpecLiteral == InitLiteral /\ [][NextLiteral]_vars

\* C20: ast.literal(value) dispatches on the type of value (string,
\* number, boolean, null, undefined) and throws at construction for a value
\* of any other type (a non-null object, an array, a bigint, a symbol, a
\* function) instead of returning a pattern.
C20_LiteralThrowsOnUnsupported ==
  (call.op = "literal") =>
    /\ call.threw <=>
         call.value.ty \in {"object", "array", "bigint", "symbol", "function"}
    /\ call.value.ty = "string" => pats[top].op = "string" /\ pats[top].name = call.value.s
    /\ call.value.ty = "number" => pats[top].op = "number" /\ pats[top].num = call.value.n
    /\ call.value.ty = "boolean" => pats[top].op = "boolean" /\ pats[top].bval = call.value.b
    /\ call.value.ty = "null" => pats[top].op = "null"
    /\ call.value.ty = "undefined" => pats[top].op = "undefined"

(***************************************************************************)
(* Sessions on repeated match calls: searches with ast.contains, alone,    *)
(* with an until pattern and nested in another search (the inner search    *)
(* then runs on several nodes within one call, with its one seen set),     *)
(* and patterns that redirect.                                             *)
(***************************************************************************)
RepeatGraphs ==
  ContainsGraphs
  \cup {ast_contains(ast_contains(ContainsLeaves, <<a>>), <<7>>) : a \in 1..4}
  \cup {ast_contains(ast_contains(ContainsLeaves, <<a, 3>>), <<7>>) : a \in {1, 2}}
  \cup {ast_contains(ast_contains(ContainsLeaves, <<a>>), <<7, 5>>) : a \in {1, 2}}
  \cup {ast_named(G0, "id"), ast_refine(ast_named(G0, "id"), 1, "parent")}

RepeatCands == {NodeV(i) : i \in {1, 8, 13, 14, 19, 22, 24}} \cup {DL(2)}

InitRepeat == \E g \in RepeatGraphs : InitWith(g, RepeatCands)
SpecRepeat == InitRepeat /\ [][Next]_vars

\* whether a search of the descendants of n that keeps no seen set finds
\* one that satisfies subs[1] before one that satisfies subs[2]
SearchAlone(subs, n) ==
  LET D == Descendants(n.id)
      F == FirstHit(subs[1], D)
      B == IF Len(subs) > 1 THEN FirstHit(subs[2], D) ELSE 0
  IN F # 0 /\ (B = 0 \/ F < B)

\* C21: a match call returns, for the same pattern and the same input, the
\* value it returns on a pattern graph with no history, whatever calls came
\* before; for contains, whose seen set stays from call to call, it is the
\* result of a search that keeps no seen set.
C21_Deterministic ==
  [][(ncalls' # ncalls /\ call'.op = "match") =>
       /\ call'.ret = ValueAlone(top, call'.input)
       /\ (pats[top].op = "contains" /\ IsNode(call'.input)) =>
            /\ (call'.ret # Undef) <=> SearchAlone(pats[top].subs, call'.input)
            /\ call'.ret # Undef => call'.ret = call'.input]_vars

\* C21 witness: a search nested in a search matched the source file for
\* the second time, with nodes in the seen sets of both searches
C21_Witness ==
  /\ call.op = "match" /\ pats[top].op = "contains"
  /\ pats[pats[top].subs[1]].op = "contains"
  /\ call.input = NodeV(1) /\ call.ret = NodeV(1)
  /\ hits >= 2
  /\ seen[top] # {} /\ seen[pats[top].subs[1]] # {}

\* C22: after match calls of one pattern on nodes, with repeated visits,
\* matches holds as many elements as there are distinct visited nodes that
\* satisfied the pattern.
C22_MatchCount ==
  (\A x \in satisfied : IsNode(x)) => Len(matches[top]) = Cardinality(satisfied)

(***************************************************************************)
(* Sessions on the order of the sub-pattern calls: combinators over        *)
(* sub-patterns that are all distinct instances, so that each call leaves  *)
(* its own trace in lastMatch and matches.                                 *)
(***************************************************************************)
Orders3 == {<<1, 2, 3>>, <<1, 3, 2>>, <<2, 1, 3>>, <<2, 3, 1>>, <<3, 1, 2>>, <<3, 2, 1>>}
Orders2 == {<<1, 2>>, <<2, 1>>, <<1, 3>>, <<3, 1>>, <<2, 3>>, <<3, 2>>}

OrderGraphs ==
  {ast_tuple(Leaves, ps) : ps \in Orders2 \cup Orders3}
  \cup {ast_tuple(ast_rest(Leaves, ps[2]), <<ps[1], 4>>) : ps \in Orders2}
  \cup {ast_intersection(Leaves, ps) : ps \in Orders3}
  \cup {ast_union(Leaves, ps) : ps \in Orders3}
  \cup {ast_every(Leaves, p, NoOpts) : p \in {1, 2}}
  \cup {ast_rest(Leaves, p) : p \in {1, 2}}
  \cup {ast_node(ast_any(ast_identifier(G0, x)), "CallExpression",
                 <<"expression", "arguments">>, <<1, 2>>) : x \in {"fn", "zzz"}}
  \cup {ast_node(ast_any(ast_identifier(G0, x)), "CallExpression",
                 <<"arguments", "expression">>, <<2, 1>>) : x \in {"fn", "zzz"}}

OrderCands == AllLists \cup {NodeV(14), NodeV(16), NodeV(17), NodeV(20)}

InitOrder == \E g \in OrderGraphs : InitWith(g, OrderCands)
SpecOrder == InitOrder /\ [][Next]_vars

\* the sub-pattern calls that pattern p has to make on input x, in the
\* order stated for its combinator, if none of them stops it: q the
\* sub-pattern, v its input (a list slot is read into a new array)
SubCall(q, v) == [q |-> q, v |-> v]
SlotValue(x, key) ==
  IF SlotAt(x.id, key).t = "node" THEN NodeV(SlotAt(x.id, key).id)
  ELSE ListV(heap, SlotAt(x.id, key).elems)
Plan(p, x) ==
  LET pat == pats[p]
  IN CASE pat.op = "node" ->
            IF IsNode(x) /\ KindOf(x) = pat.kind /\ pat.hasProps
            THEN [i \in 1..Len(pat.subs) |-> SubCall(pat.subs[i], SlotValue(x, pat.keys[i]))]
            ELSE <<>>
       [] pat.op = "tuple" ->
            IF IsArray(x) /\ Len(x.elems) = Len(pat.subs)
            THEN [i \in 1..Len(x.elems) |-> SubCall(pat.subs[i], NodeV(x.elems[i]))]
            ELSE <<>>
       [] pat.op = "tupleRest" ->
            IF IsArray(x) /\ Len(x.elems) >= Len(pat.subs)
            THEN [i \in 1..Len(x.elems) |->
                    SubCall(IF i <= Len(pat.subs) THEN pat.subs[i] ELSE pat.rest,
                            NodeV(x.elems[i]))]
            ELSE <<>>
       [] pat.op \in {"every", "rest"} ->
            IF IsArray(x)
            THEN [i \in 1..Len(x.elems) |-> SubCall(pat.subs[1], NodeV(x.elems[i]))]
            ELSE <<>>
       [] pat.op \in {"union", "intersection"} ->
            [i \in 1..Len(pat.subs) |-> SubCall(pat.subs[i], x)]
       [] OTHER -> <<>>

\* whether call i of the plan stops the combinator: the first success for
\* union, the first failure for the others
Decides(p, plan, i) ==
  IF pats[p].op = "union" THEN MatchesAlone(plan[i].q, plan[i].v)
  ELSE ~MatchesAlone(plan[i].q, plan[i].v)
\* the calls of the plan that are made: those up to the first that decides
Made(p, plan) ==
  {i \in 1..Len(plan) : \A j \in 1..(i - 1) : ~Decides(p, plan, j)}
\* those of them that are calls of sub-pattern q and succeed
MadeOk(p, plan, q) ==
  {i \in Made(p, plan) : plan[i].q = q /\ MatchesAlone(q, plan[i].v)}
Max(S) == CHOOSE i \in S : \A j \in S : j <= i

\* C23: within one match call the sub-pattern calls are made in the stated
\* order up to the first failing one (for union: the first succeeding
\* one); a sub-pattern none of whose calls is made keeps its lastMatch and
\* matches, the others hold exactly what the calls made recorded.
C23_ShortCircuit ==
  [][(ncalls' # ncalls /\ call'.op = "match" /\ pats[top].op # "any") =>
       LET plan == Plan(top, call'.input)
       IN /\ (pats[top].op = "union") =>
               ((call'.ret # Undef) <=> \E i \in 1..Len(plan) : Decides(top, plan, i))
          /\ (pats[top].op # "union" /\ call'.ret # Undef) =>
               \A i \in 1..Len(plan) : ~Decides(top, plan, i)
          /\ \A q \in 1..(top - 1) :
               IF MadeOk(top, plan, q) = {}
               THEN lastMatch'[q] = lastMatch[q] /\ matches'[q] = matches[q]
               ELSE /\ lastMatch'[q] = ValueAlone(q, plan[Max(MadeOk(top, plan, q))].v)
                    /\ Elems(matches'[q]) =
                         Elems(matches[q])
                           \cup {ValueAlone(q, plan[i].v) : i \in MadeOk(top, plan, q)}]_vars

\* C23 witness: a three-pattern combinator stopped at its second pattern:
\* the first has recorded the input of this call, the third has recorded
\* nothing although it accepts the input it would have been given
C23_Witness ==
  /\ call.op = "match" /\ pats[top].op \in {"tuple", "intersection", "union"}
  /\ Len(pats[top].subs) = 3
  /\ LET plan == Plan(top, call.input)
     IN /\ Len(plan) = 3
        /\ Made(top, plan) = {1, 2}
        /\ MatchesAlone(plan[3].q, plan[3].v)
        /\ lastMatch[plan[3].q] = Undef

(***************************************************************************)
(* Sessions on ast.callExpression(name, ...args).  The argument patterns   *)
(* are taken from 1 = number(1), 2 = boolean(), 3 = any(), 4 = rest(any()),*)
(* 5 = tuple(number(1), boolean(), any()), 6 = every(number(1)) and        *)
(* 10 = object({ id: number(1) }); the calls are fn(1, true, 3),           *)
(* find({ id: 1 }) and fn().                                               *)
(***************************************************************************)
CallLeaves ==
  ast_object(ast_every(ast_tuple(ast_rest(ast_any(ast_boolean0(ast_number(G0, 1))), 3),
                                 <<1, 2, 3>>),
                       1, NoOpts),
             <<"id">>, <<1>>, FALSE)
ObjectArg == Len(CallLeaves)

ArgChoices ==
  {<<>>, <<1>>, <<3>>, <<1, 2>>, <<1, 2, 3>>, <<1, 2, 1>>, <<3, 3, 3>>, <<3, 3, 3, 3>>,
   <<4>>, <<5>>, <<6>>, <<1, 4>>, <<1, 2, 4>>, <<1, 2, 3, 4>>, <<1, 2, 3, 3, 4>>, <<4, 3>>,
   <<ObjectArg>>, <<ObjectArg, 4>>}

CallGraphs ==
  {ast_callExpression(CallLeaves, name, args) :
     name \in {"fn", "find", "zzz"}, args \in ArgChoices}

CallCands == {NodeV(13), NodeV(14), NodeV(15), NodeV(20), NodeV(40), DL(2)}

InitCall == \E g \in CallGraphs : InitWith(g, CallCands)
SpecCall == InitCall /\ [][Next]_vars

\* the last call was a match of a callExpression pattern
CallExpressionCall ==
  call.op = "match" /\ pats[top].op = "single" /\ pats[top].kind = "CallExpression"
\* the name and the argument patterns it was built with
CallName == pats[pats[pats[top].subs[1]].subs[1]].name
CallArgs == pats[top].pvals
\* the callee text and the arguments of a call expression node
CalleeText(x) == TextOf(NodeV(SlotAt(x.id, "expression").id))
ArgumentsOf(x) == SlotAt(x.id, "arguments").elems
\* a list matches the patterns ps as a tuple of fixed length
FixedOK(ps, L) ==
  /\ Len(L) = Len(ps)
  /\ \A i \in 1..Len(ps) : MatchesAlone(ps[i], NodeV(L[i]))
\* a list matches the patterns ps followed by any number of elements
\* matching the pattern r
RestOK(ps, r, L) ==
  /\ Len(L) >= Len(ps)
  /\ \A i \in 1..Len(L) :
       MatchesAlone(IF i <= Len(ps) THEN ps[i] ELSE r, NodeV(L[i]))
IsListKind(p) == pats[p].op \in {"nodeList", "every", "some", "tuple", "tupleRest", "rest"}

\* C24 as claimed: with no argument patterns any number of arguments is
\* accepted; a single argument pattern of a list kind is matched against
\* the whole argument list; in every other case the call must have exactly
\* as many arguments as patterns, each matching in order.
C24_CallArguments ==
  CallExpressionCall =>
    ((call.ret # Undef) <=>
       /\ IsNode(call.input) /\ KindOf(call.input) = "CallExpression"
       /\ CalleeText(call.input) = CallName
       /\ IF Len(CallArgs) = 0 THEN TRUE
          ELSE IF Len(CallArgs) = 1 /\ IsListKind(CallArgs[1])
               THEN MatchesAlone(CallArgs[1], ListV(FirstFree, ArgumentsOf(call.input)))
          ELSE FixedOK(CallArgs, ArgumentsOf(call.input)))

\* C24 amended: as claimed, except that several argument patterns of which
\* the last is rest(R) are wrapped in a tuple with rest: the call must have
\* at least as many arguments as there are patterns before the rest, these
\* matching in order and every later argument matching R.
C24_CallArgumentsWithRest ==
  CallExpressionCall =>
    /\ (call.ret # Undef) <=>
         /\ IsNode(call.input) /\ KindOf(call.input) = "CallExpression"
         /\ CalleeText(call.input) = CallName
         /\ IF Len(CallArgs) = 0 THEN TRUE
            ELSE IF Len(CallArgs) = 1 /\ IsListKind(CallArgs[1])
                 THEN MatchesAlone(CallArgs[1], ListV(FirstFree, ArgumentsOf(call.input)))
            ELSE IF pats[CallArgs[Len(CallArgs)]].op = "rest"
                 THEN RestOK(SubSeq(CallArgs, 1, Len(CallArgs) - 1),
                             pats[CallArgs[Len(CallArgs)]].subs[1], ArgumentsOf(call.input))
            ELSE FixedOK(CallArgs, ArgumentsOf(call.input))
    /\ call.ret # Undef => (call.ret = call.input /\ lastMatch[top] = call.input)

\* C24 witness: callExpression("fn", number(1), rest(any())) has matched
\* fn(1, true, 3), a call with more arguments than patterns
C24_Witness ==
  /\ CallExpressionCall
  /\ CallName = "fn" /\ CallArgs = <<1, 4>>
  /\ call.input = NodeV(14)
  /\ call.ret = NodeV(14)

(***************************************************************************)
(* Sessions on ast.object(properties, isPartial).  The property patterns   *)
(* are 1 = number(1), 2 = number(3), 3 = boolean(), 4 = any(); the object  *)
(* literals are { id: 1 }, {}, { id: 1, key: true } and                    *)
(* { key: true, id: 1 }.                                                   *)
(***************************************************************************)
ObjectLeaves == ast_any(ast_boolean0(ast_number(ast_number(G0, 1), 3)))

PropertyChoices ==
  {<<ks, vs>> : ks \in {<<"id">>, <<"key">>, <<"zzz">>}, vs \in {<<1>>, <<2>>, <<3>>, <<4>>}}
  \cup {<<ks, vs>> : ks \in {<<"id", "key">>, <<"key", "id">>, <<"id", "zzz">>},
                     vs \in {<<1, 3>>, <<3, 1>>, <<4, 4>>, <<2, 3>>}}
  \cup {<< <<>>, <<>> >>}

ObjectGraphs ==
  {ast_object(ObjectLeaves, kv[1], kv[2], isPartial) :
     kv \in PropertyChoices, isPartial \in BOOLEAN}
  \cup {ast_object0(ObjectLeaves)}

ObjectCands == {NodeV(20), NodeV(22), NodeV(45), NodeV(46), NodeV(53), DL(2)}

InitObject == \E g \in ObjectGraphs : InitWith(g, ObjectCands)
SpecObject == InitObject /\ [][Next]_vars

\* the last call was a match of an ast.object pattern
ObjectCall ==
  call.op = "match" /\ pats[top].op = "single" /\ pats[top].kind = "ObjectLiteralExpression"
\* the properties of an object literal node, the key and the initializer
\* of one of them
PropertiesOf(x) == SlotAt(x.id, "properties").elems
PropertyKey(prop) == TextOf(NodeV(SlotAt(prop, "name").id))
PropertyInit(prop) == NodeV(SlotAt(prop, "initializer").id)
\* property prop of a literal has the i-th declared key and matches its pattern
PairOK(i, prop) ==
  /\ PropertyKey(prop) = pats[top].keys[i]
  /\ MatchesAlone(pats[top].pvals[i], PropertyInit(prop))

\* C25: object() matches any object literal; object(properties) matches a
\* literal iff its properties are exactly the declared keys in declaration
\* order, each initializer matching its pattern; with isPartial it matches
\* iff every property of the literal matches some declared pair (so the
\* empty literal always, a literal with an undeclared property never).
C25_ObjectProperties ==
  ObjectCall =>
    /\ (call.ret # Undef) <=>
         /\ IsNode(call.input) /\ KindOf(call.input) = "ObjectLiteralExpression"
         /\ IF pats[top].ptype = "" THEN TRUE
            ELSE IF pats[top].isPartial
                 THEN \A j \in 1..Len(PropertiesOf(call.input)) :
                        \E i \in 1..Len(pats[top].keys) : PairOK(i, PropertiesOf(call.input)[j])
            ELSE /\ Len(PropertiesOf(call.input)) = Len(pats[top].keys)
                 /\ \A i \in 1..Len(pats[top].keys) : PairOK(i, PropertiesOf(call.input)[i])
    /\ call.ret # Undef => (call.ret = call.input /\ lastMatch[top] = call.input)

\* C25 witness: a partial object pattern with two declared pairs has
\* matched the literal that has them in the other order, after the empty
\* literal
C25_Witness ==
  /\ ObjectCall /\ pats[top].isPartial
  /\ pats[top].keys = <<"id", "key">>
  /\ call.input = NodeV(53) /\ call.ret = NodeV(53)
  /\ NodeV(45) \in Elems(matches[top])

(***************************************************************************)
(* Sessions on ast.node with a declared slot whose pattern is missing.     *)
(* Over the leaves 1 = identifier(x), 2 = maybeNode(), 3 = any(), pattern  *)
(* 4 is ast.node without the slot and pattern 5 the same ast.node with the *)
(* slot declared as null (NullPat) or as undefined, at every position.     *)
(***************************************************************************)
\* a slot declared with the value undefined (dropped by compact)
Undefined == -1
MissingLeaves(x) == ast_any(ast_maybeNode(ast_identifier(G0, x), <<>>))

\* the sequence s with e put in at position i (at its end when i is beyond it)
InsertAt(s, i, e) ==
  [j \in 1..(Len(s) + 1) |->
     IF j < i /\ j <= Len(s) THEN s[j] ELSE IF j = i \/ (i > Len(s) /\ j = Len(s) + 1) THEN e
     ELSE s[j - 1]]

SlotChoices ==
  {<<"ExportSpecifier", <<>>, <<>> >>,
   <<"ExportSpecifier", <<"name">>, <<1>> >>,
   <<"ExportSpecifier", <<"propertyName">>, <<2>> >>,
   <<"ExportSpecifier", <<"propertyName">>, <<3>> >>,
   <<"ExportSpecifier", <<"name", "propertyName">>, <<1, 2>> >>,
   <<"ExportSpecifier", <<"propertyName", "name">>, <<2, 1>> >>,
   <<"CallExpression", <<"expression", "arguments">>, <<1, 3>> >>}

MissingKeys == {"name", "propertyName", "expression", "typeArguments"}

\* a slot choice and a further key, not among its keys
MissingChoices ==
  {m \in SlotChoices \X MissingKeys : \A j \in 1..Len(m[1][2]) : m[1][2][j] # m[2]}

MissingGraphs ==
  {ast_node(ast_node(MissingLeaves(x), m[1][1], m[1][2], m[1][3]), m[1][1],
            InsertAt(m[1][2], i, m[2]), InsertAt(m[1][3], i, missing)) :
     x \in {"aaa", "fn"}, m \in MissingChoices, i \in 1..3,
     missing \in {NullPat, Undefined}}

MissingCands == {NodeV(4), NodeV(5), NodeV(6), NodeV(14), NodeV(40), DL(2)}

InitMissing == \E g \in MissingGraphs : InitWith(g, MissingCands)
SpecMissing == InitMissing /\ [][Next]_vars

\* C26: a declared slot whose pattern is missing (null or undefined) is
\* taken as satisfied: the pattern with that slot returns on every input
\* what the same pattern built without the slot returns.
C26_MissingSlotSkipped ==
  (call.op = "match" /\ pats[top].op = "node") =>
    /\ call.ret = ValueAlone(top - 1, call.input)
    /\ call.ret # Undef => lastMatch[top] = call.input

\* C26 witness: a pattern that declares, between two other slots, a slot
\* with the pattern null that the node does not have, has matched
C26_Witness ==
  /\ call.op = "match" /\ pats[top].op = "node"
  /\ Len(pats[top].subs) = 3 /\ pats[top].subs[2] = NullPat
  /\ IsNode(call.input)
  /\ SlotAt(call.input.id, pats[top].keys[2]).t = "absent"
  /\ SlotAt(call.input.id, pats[top].keys[3]).t # "absent"
  /\ call.ret = call.input

\* C27: in every state and for every pattern, lastMatch is undefined iff
\* matches is empty, and a defined lastMatch is an element of matches; the
\* lastMatch of the pattern called is the value its most recent successful
\* match call returned: a successful call sets it to the value returned, a
\* failed call and every other operation leave it as it was.
C27_LastMatchInvariant ==
  /\ [](\A p \in Pids :
          /\ (lastMatch[p] = Undef) <=> (matches[p] = <<>>)
          /\ lastMatch[p] # Undef => lastMatch[p] \in Elems(matches[p]))
  /\ [][/\ (call'.op = "match" /\ call'.ret # Undef) => lastMatch'[top] = call'.ret
        /\ (call'.op # "match" \/ call'.ret = Undef) => lastMatch'[top] = lastMatch[top]]_vars

\* C27 witness: after two successful calls that returned different values
\* a call has failed, and lastMatch is the value of the second
C27_Witness ==
  /\ call.op = "match" /\ call.ret = Undef
  /\ Len(matches[top]) = 2
  /\ lastMatch[top] = matches[top][2]

(***************************************************************************)
(* Sessions on the captures of a structural pattern: ast.node patterns     *)
(* whose slot patterns are ast.ref captures, among them the README         *)
(* pattern, matched on export declarations with and without a module       *)
(* specifier, on export specifiers and on calls.                           *)
(***************************************************************************)
SlotCaptureGraphs ==
  {ast_node(ast_ref(G0, "fn"), "ExportDeclaration", <<"moduleSpecifier">>, <<2>>),
   ast_node(ast_ref(G0, "fn"), "ExportDeclaration", <<"exportClause">>, <<2>>),
   ast_node(ast_ref(G0, "fn"), "ExportSpecifier", <<"name">>, <<2>>),
   ast_node(ast_ref(G0, "fn"), "CallExpression", <<"expression">>, <<2>>),
   ast_node(ast_ref(G0, "arg1"), "CallExpression", <<"arguments">>, <<2>>),
   ReadmeGraph}

SlotCaptureCands == {NodeV(i) : i \in {2, 4, 6, 14, 20, 40, 60}}

InitSlotCapture == \E g \in SlotCaptureGraphs : InitWith(g, SlotCaptureCands)
SpecSlotCapture == InitSlotCapture /\ [][Next]_vars

\* value v is what slot s of the tree holds: the node, an array of the
\* nodes of the list, or nothing for a slot the node does not have
HoldsSlot(v, s) ==
  CASE s.t = "node" -> v = NodeV(s.id)
    [] s.t = "list" -> IsArray(v) /\ v.elems = s.elems
    [] s.t = "absent" -> v = Undef
    [] OTHER -> IsNode(v) /\ ~IsTreeNode(v) /\ v.b = s.b

\* C28: for ast.node(kind, {slot: C}) with C carrying a capture name, in
\* every state in which the top-level lastMatch is defined, the lastMatch
\* of the pattern collectCaptures() returns under that name is the value of
\* that slot on the node recorded as the top-level lastMatch.
C28_CapturesOfLastMatch ==
  (pats[top].op = "node" /\ pats[top].hasProps /\ lastMatch[top] # Undef) =>
    \A i \in 1..Len(pats[top].subs) :
      refName[pats[top].subs[i]] \in CaptureNames =>
        HoldsSlot(lastMatch[collectCaptures(top, refName)[refName[pats[top].subs[i]]]],
                  SlotAt(lastMatch[top].id, pats[top].keys[i]))

(***************************************************************************)
(* Sessions on the params of the combinators: every factory that takes    *)
(* patterns is given capture-named patterns (1, 2 = ref("fn"),             *)
(* 3, 4 = ref("arg1"), 5 = rest(4)).                                       *)
(***************************************************************************)
ArgumentLeaves == ast_rest(ast_ref(ast_ref(G0, "fn"), "arg1"), 4)

ArgumentGraphs ==
  {callExpressionOn(ArgumentLeaves, 2, <<>>),
   callExpressionOn(ArgumentLeaves, 2, <<4>>),
   callExpressionOn(ArgumentLeaves, 2, <<5>>),
   ast_tuple(ArgumentLeaves, <<2, 5>>),
   ast_tuple(ArgumentLeaves, <<2, 4>>),
   ast_refine(ArgumentLeaves, 2, "true"),
   ast_not(ArgumentLeaves, 2),
   ast_unwrap(ArgumentLeaves, 2),
   ast_contains(ArgumentLeaves, <<2>>),
   ast_contains(ArgumentLeaves, <<2, 4>>),
   ast_union(ArgumentLeaves, <<2, 4>>),
   ast_intersection(ArgumentLeaves, <<2, 4>>),
   ast_every(ArgumentLeaves, 2, NoOpts),
   ast_some(ArgumentLeaves, 2, NoOpts),
   ast_nodeList(ArgumentLeaves, <<2>>, NoOpts),
   ast_maybeNode(ArgumentLeaves, <<2>>),
   ast_array(ArgumentLeaves, <<2>>),
   ast_object(ArgumentLeaves, <<"id">>, <<2>>, FALSE),
   ast_node(ArgumentLeaves, "CallExpression", <<"expression", "arguments">>, <<2, 4>>)}

ArgumentCands == {NodeV(14), NodeV(20), DL(6)}

InitArguments == \E g \in ArgumentGraphs : InitWith(g, ArgumentCands)
SpecArguments == InitArguments /\ [][Next]_vars

\* the patterns the factory of pattern p was given as arguments (for a
\* tuple with a trailing rest marker: the pattern the marker wraps)
FactoryArguments(p) ==
  LET pat == pats[p]
  IN CASE pat.op = "single" /\ pat.kind = "CallExpression" ->
            {pats[pat.subs[1]].subs[1]} \cup Elems(pat.pvals)
       [] pat.op = "single" -> Elems(pat.pvals)
       [] pat.op = "tupleRest" -> Elems(pat.subs) \cup {pat.rest}
       [] OTHER -> Elems(pat.subs) \ {NullPat}

\* C29: every pattern given to a factory is found in the params of the
\* pattern the factory returns (the name pattern of callExpression, the
\* pattern wrapped by the rest marker of a tuple, the inner patterns of
\* refine / not / unwrap / contains included), so every capture name
\* carried by such a pattern is a key of collectCaptures().
C29_ArgumentsInParams ==
  (call.op = "collectCaptures") =>
    \A q \in FactoryArguments(top) :
      refName[q] \in CaptureNames =>
        /\ q \in ParamPatterns(top)
        /\ call.caps[refName[q]] # 0

\* C30: collectCaptures() changes no pattern's lastMatch, matches, refName,
\* kind or params; what it returns is fixed by the params and the capture
\* names alone, so it is the same before any match call, after a failed
\* and after a successful one; it is empty for a pattern without params
\* and never holds the pattern it is called on.
C30_CollectCapturesReadOnly ==
  [][(ncalls' # ncalls /\ call'.op = "collectCaptures") =>
       /\ lastMatch' = lastMatch /\ matches' = matches
       /\ refName' = refName /\ pats' = pats
       /\ \A n \in CaptureNames :
            /\ call'.caps[n] = LastCarrying(VisitOrder(top), n)
            /\ call'.caps[n] # top
       /\ Params(pats[top]) = <<>> => call'.caps = NoCaptures]_vars

\* C30 witness: the captures of a pattern that has matched and has then
\* been given a name that a pattern in its params carries
C30_Witness ==
  /\ call.op = "collectCaptures"
  /\ hits = 1 /\ lastMatch[top] # Undef
  /\ refName[top] = "fn"
  /\ call.caps["fn"] \in 1..(top - 1)

====
